---- MODULE Spec2Model ----
(***************************************************************************)
(* Verification model of transit-server: the schedule diff engine          *)
(* (src/src/diff/core.rs, src/src/diff/ir.rs) and the origin's snapshot    *)
(* history (src/src/server.rs).                                            *)
(***************************************************************************)
EXTENDS Integers, Naturals, Sequences, FiniteSets, Bags, TLC

VARIABLES
    \* ---- origin process (server.rs) ----
    history,        \* HISTORY_LOCK: Vec<(u32, (ScheduleIR, ScheduleUpdate))>
    deltas,         \* DIFFS_LOCK: HashMap<u32, ScheduleDiff>
    full,           \* FULL_LOCK: Option<FullSchedule>, <<>> or <<schedule>>
    now,            \* wall clock, whole seconds (get_nyc_datetime)
    upd,            \* update_loop: its position and locals
    last,           \* what the latest step of the origin did
    \* ---- diff engine exercised as pure functions ----
    inp,            \* the inputs drawn
    out             \* the results computed from them

vars == <<history, deltas, full, now, upd, last, inp, out>>

(***************************************************************************)
(* Bounds of the model.                                                    *)
(***************************************************************************)
NumVals == 2        \* distinct stop / shape contents per id
NumTripVals == 4    \* distinct trip contents per trip id
MaxEntries == 2     \* entries (adds + removes) of a hand-built update
MaxEntities == 2    \* trips + shapes + stops of a snapshot in a chain of three

RouteIds == {"A", "B"}
TripIds == {"t1"}
StopIds == {"s1"}
ShapeIds == {"h1"}

None == "None"

(***************************************************************************)
(* Values of the IR (diff/ir.rs).                                          *)
(***************************************************************************)
\* server::db_transit::Stop, as the IR builder fills it for stop row `sid`
Stop(sid, k) ==
    [stop_id |-> sid, stop_name |-> None, parent_stop_id |-> None,
     position |-> <<k, k + 1>>]

\* server::db_transit::Shape
Shape(hid, k) == [shape_id |-> hid, points |-> << <<k, k + 1>> >>]

\* server::db_transit::StopTime
StopTime(seq, arr) ==
    [stop_id |-> "s1", arrival_time |-> arr, departure_time |-> arr,
     stop_sequence |-> seq]

\* TripIR: variant 1 is the reference trip, each other variant differs from
\* it in exactly one field.
TripIR(tid, k) ==
    [trip_id |-> tid,
     stop_times |-> IF k = 4 THEN (1 :> StopTime(1, 60))
                    ELSE IF k >= 5 THEN (1 :> StopTime(1, 30)) @@ (k :> StopTime(k, 90))
                    ELSE (1 :> StopTime(1, 30)),
     headsign |-> None,
     shape_id |-> None,
     direction |-> None,
     mask_start_date |-> IF k = 3 THEN "20250402" ELSE "20250401",
     date_mask |-> IF k = 2 THEN 3 ELSE 1]

StopMaps(nv) ==
    UNION {{f \in [D -> {Stop(d, k) : d \in D, k \in 1..nv}] :
              \A d \in D : f[d].stop_id = d} : D \in SUBSET StopIds}

ShapeMaps(nv) ==
    UNION {{f \in [D -> {Shape(d, k) : d \in D, k \in 1..nv}] :
              \A d \in D : f[d].shape_id = d} : D \in SUBSET ShapeIds}

TripMaps(nv) ==
    UNION {{f \in [D -> {TripIR(d, k) : d \in D, k \in 1..nv}] :
              \A d \in D : f[d].trip_id = d} : D \in SUBSET TripIds}

\* RouteIR
RouteIR(rid, trips) == [route_id |-> rid, trips |-> trips]

RouteMaps(nv) ==
    UNION {{f \in [D -> {RouteIR(d, t) : d \in D, t \in TripMaps(nv)}] :
              \A d \in D : f[d].route_id = d} : D \in SUBSET RouteIds}

\* ScheduleIR: every IR the builder can produce over the ids above (map keys
\* equal the id stored in the value, as try_from_schedule_with_dates inserts
\* them).
ScheduleIRs(nv, ntv) ==
    [routes : RouteMaps(ntv), shapes : ShapeMaps(nv), stops : StopMaps(nv)]

(***************************************************************************)
(* HashMap / HashSet operations used by the diff engine.                   *)
(***************************************************************************)
EmptyMap == [k \in {} |-> k]

\* HashMap::remove for every key of S
MapRemoveAll(m, S) == [k \in DOMAIN m \ S |-> m[k]]

\* HashMap::insert of every entry of a (an existing key is overwritten)
MapInsertAll(m, a) ==
    [k \in DOMAIN m \cup DOMAIN a |-> IF k \in DOMAIN a THEN a[k] ELSE m[k]]

\* ScheduleUpdate::default()
EmptyUpdate ==
    [added_trips |-> EmptyMap, removed_trip_ids |-> {},
     added_shapes |-> EmptyMap, removed_shape_ids |-> {},
     added_stops |-> EmptyMap, removed_stop_ids |-> {}]

(***************************************************************************)
(* ScheduleIR::get_diff (diff/core.rs).  self is the newer snapshot.       *)
(***************************************************************************)
\* The body shared by get_stop_diffs and get_shape_diffs: the two loops over
\* the keys of the newer map and of the older map.
GetMapDiffsNoDeleted(selfMap, prevMap) ==
    LET updated == {k \in DOMAIN selfMap :
                      k \in DOMAIN prevMap /\ selfMap[k] # prevMap[k]}
        new == {k \in DOMAIN selfMap : k \notin DOMAIN prevMap}
    IN  [added |-> [k \in updated \cup new |-> selfMap[k]],
         removed |-> updated]

GetMapDiffs(selfMap, prevMap) ==
    LET updated == {k \in DOMAIN selfMap :
                      k \in DOMAIN prevMap /\ selfMap[k] # prevMap[k]}
        new == {k \in DOMAIN selfMap : k \notin DOMAIN prevMap}
        deleted == {k \in DOMAIN prevMap : k \notin DOMAIN selfMap}
    IN  [added |-> [k \in updated \cup new |-> selfMap[k]],
         removed |-> updated \cup deleted]

GetStopDiffs(self, prev) == GetMapDiffs(self.stops, prev.stops)

GetShapeDiffs(self, prev) == GetMapDiffs(self.shapes, prev.shapes)

\* The (route, trip) pairs the loops of get_trip_diffs visit in ir.
TripEntries(ir) ==
    UNION {{<<ir.routes[rk], ir.routes[rk].trips[tk]>> :
               tk \in DOMAIN ir.routes[rk].trips} : rk \in DOMAIN ir.routes}

\* .expect("new route") fails: a visited trip's route is missing on the other
\* side.  A route without trips is never looked up.
TripDiffsPanic(self, prev) ==
    \/ \E e \in TripEntries(self) : e[1].route_id \notin DOMAIN prev.routes
    \/ \E e \in TripEntries(prev) : e[1].route_id \notin DOMAIN self.routes

GetTripDiffsNoCompare(self, prev) ==
    LET inPrev(e) == e[2].trip_id \in DOMAIN prev.routes[e[1].route_id].trips
        updated == {e \in TripEntries(self) : inPrev(e)}
        new == {e \in TripEntries(self) : ~inPrev(e)}
        deleted == {e \in TripEntries(prev) :
                      e[2].trip_id \notin DOMAIN self.routes[e[1].route_id].trips}
        key(e) == <<e[1].route_id, e[2].trip_id>>
        addedKeys == {key(e) : e \in updated \cup new}
    IN  [added |-> [k \in addedKeys |->
                      (CHOOSE e \in updated \cup new : key(e) = k)[2]],
         removed |-> {key(e) : e \in updated \cup deleted}]

GetTripDiffs(self, prev) ==
    LET inPrev(e) == e[2].trip_id \in DOMAIN prev.routes[e[1].route_id].trips
        updated == {e \in TripEntries(self) :
                      inPrev(e)
                      /\ prev.routes[e[1].route_id].trips[e[2].trip_id] # e[2]}
        new == {e \in TripEntries(self) : ~inPrev(e)}
        deleted == {e \in TripEntries(prev) :
                      e[2].trip_id \notin DOMAIN self.routes[e[1].route_id].trips}
        key(e) == <<e[1].route_id, e[2].trip_id>>
        addedKeys == {key(e) : e \in updated \cup new}
    IN  [added |-> [k \in addedKeys |->
                      (CHOOSE e \in updated \cup new : key(e) = k)[2]],
         removed |-> {key(e) : e \in updated \cup deleted}]

\* get_diff: a panic of get_trip_diffs ends the call without an update.
GetDiff(self, prev) ==
    IF TripDiffsPanic(self, prev)
    THEN [panic |-> TRUE, update |-> EmptyUpdate]
    ELSE LET st == GetStopDiffs(self, prev)
             sh == GetShapeDiffs(self, prev)
             tr == GetTripDiffs(self, prev)
         IN  [panic |-> FALSE,
              update |-> [added_trips |-> tr.added,
                          removed_trip_ids |-> tr.removed,
                          added_shapes |-> sh.added,
                          removed_shape_ids |-> sh.removed,
                          added_stops |-> st.added,
                          removed_stop_ids |-> st.removed]]

(***************************************************************************)
(* ScheduleUpdate::apply_to_schedule.                                      *)
(***************************************************************************)
\* .expect("Unable to find route in schedule")
ApplyPanic(u, response) ==
    \E k \in u.removed_trip_ids \cup DOMAIN u.added_trips :
        k[1] \notin DOMAIN response.routes

ApplyTrips(u, routes) ==
    [r \in DOMAIN routes |->
        LET gone == {k[2] : k \in {x \in u.removed_trip_ids : x[1] = r}}
            put == {k \in DOMAIN u.added_trips : k[1] = r}
            kept == MapRemoveAll(routes[r].trips, gone)
        IN  [routes[r] EXCEPT !.trips =
                [t \in DOMAIN kept \cup {k[2] : k \in put} |->
                    IF <<r, t>> \in put THEN u.added_trips[<<r, t>>]
                    ELSE kept[t]]]]

ApplyToScheduleInsertFirst(u, response) ==
    IF ApplyPanic(u, response)
    THEN [panic |-> TRUE, ir |-> response]
    ELSE [panic |-> FALSE,
          ir |-> [routes |-> ApplyTrips(u, response.routes),
                  shapes |-> MapRemoveAll(
                      MapInsertAll(response.shapes, u.added_shapes),
                      u.removed_shape_ids),
                  stops |-> MapRemoveAll(
                      MapInsertAll(response.stops, u.added_stops),
                      u.removed_stop_ids)]]

ApplyToSchedule(u, response) ==
    IF ApplyPanic(u, response)
    THEN [panic |-> TRUE, ir |-> response]
    ELSE [panic |-> FALSE,
          ir |-> [routes |-> ApplyTrips(u, response.routes),
                  shapes |-> MapInsertAll(
                      MapRemoveAll(response.shapes, u.removed_shape_ids),
                      u.added_shapes),
                  stops |-> MapInsertAll(
                      MapRemoveAll(response.stops, u.removed_stop_ids),
                      u.added_stops)]]

(***************************************************************************)
(* ScheduleUpdate::combine.                                                *)
(***************************************************************************)
\* get_diff_diff_mask: (in final removed set, which added map supplies the
\* final value), or the panic of the last arm.
GetDiffDiffMaskLenient(r1, r2, a1, a2) ==
    LET m == <<r1, r2, a1, a2>>
        T == TRUE
        F == FALSE
    IN  IF m \in {<<T, T, T, T>>, <<F, T, T, T>>, <<T, T, F, T>>,
                  <<T, F, F, T>>, <<F, T, F, T>>}
        THEN [panic |-> FALSE, in_removed |-> TRUE, added_status |-> "other"]
        ELSE IF m = <<T, F, T, F>>
        THEN [panic |-> FALSE, in_removed |-> TRUE, added_status |-> "self"]
        ELSE IF m \in {<<T, T, T, F>>, <<T, F, F, F>>, <<F, T, F, F>>,
                       <<T, T, F, F>>}
        THEN [panic |-> FALSE, in_removed |-> TRUE, added_status |-> None]
        ELSE IF m = <<F, F, T, F>>
        THEN [panic |-> FALSE, in_removed |-> FALSE, added_status |-> "self"]
        ELSE IF m = <<F, F, F, T>>
        THEN [panic |-> FALSE, in_removed |-> FALSE, added_status |-> "other"]
        ELSE IF m \in {<<F, F, F, F>>, <<F, T, T, F>>}
        THEN [panic |-> FALSE, in_removed |-> FALSE, added_status |-> None]
        ELSE [panic |-> TRUE, in_removed |-> FALSE, added_status |-> None]

GetDiffDiffMaskSelfWins(r1, r2, a1, a2) ==
    LET m == <<r1, r2, a1, a2>>
        T == TRUE
        F == FALSE
    IN  IF m \in {<<F, T, T, T>>, <<T, T, F, T>>,
                  <<T, F, F, T>>, <<F, T, F, T>>}
        THEN [panic |-> FALSE, in_removed |-> TRUE, added_status |-> "other"]
        ELSE IF m \in {<<T, F, T, F>>, <<T, T, T, T>>}
        THEN [panic |-> FALSE, in_removed |-> TRUE, added_status |-> "self"]
        ELSE IF m \in {<<T, T, T, F>>, <<T, F, F, F>>, <<F, T, F, F>>}
        THEN [panic |-> FALSE, in_removed |-> TRUE, added_status |-> None]
        ELSE IF m = <<F, F, T, F>>
        THEN [panic |-> FALSE, in_removed |-> FALSE, added_status |-> "self"]
        ELSE IF m = <<F, F, F, T>>
        THEN [panic |-> FALSE, in_removed |-> FALSE, added_status |-> "other"]
        ELSE IF m \in {<<F, F, F, F>>, <<F, T, T, F>>}
        THEN [panic |-> FALSE, in_removed |-> FALSE, added_status |-> None]
        ELSE [panic |-> TRUE, in_removed |-> FALSE, added_status |-> None]

GetDiffDiffMask(r1, r2, a1, a2) ==
    LET m == <<r1, r2, a1, a2>>
        T == TRUE
        F == FALSE
    IN  IF m \in {<<T, T, T, T>>, <<F, T, T, T>>, <<T, T, F, T>>,
                  <<T, F, F, T>>, <<F, T, F, T>>}
        THEN [panic |-> FALSE, in_removed |-> TRUE, added_status |-> "other"]
        ELSE IF m = <<T, F, T, F>>
        THEN [panic |-> FALSE, in_removed |-> TRUE, added_status |-> "self"]
        ELSE IF m \in {<<T, T, T, F>>, <<T, F, F, F>>, <<F, T, F, F>>}
        THEN [panic |-> FALSE, in_removed |-> TRUE, added_status |-> None]
        ELSE IF m = <<F, F, T, F>>
        THEN [panic |-> FALSE, in_removed |-> FALSE, added_status |-> "self"]
        ELSE IF m = <<F, F, F, T>>
        THEN [panic |-> FALSE, in_removed |-> FALSE, added_status |-> "other"]
        ELSE IF m \in {<<F, F, F, F>>, <<F, T, T, F>>}
        THEN [panic |-> FALSE, in_removed |-> FALSE, added_status |-> None]
        ELSE \* <<T, F, T, T>>, <<T, T, F, F>>, <<F, F, T, T>>
             [panic |-> TRUE, in_removed |-> FALSE, added_status |-> None]

GetAllIdsNoAdded2(added1, added2, removed1, removed2) ==
    (removed1 \cup removed2) \cup DOMAIN added1

GetAllIds(added1, added2, removed1, removed2) ==
    (removed1 \cup removed2) \cup DOMAIN added1 \cup DOMAIN added2

\* The mask of one id, as each loop of combine reads it.
MaskOf(id, added, removed, otherAdded, otherRemoved) ==
    GetDiffDiffMask(id \in removed, id \in otherRemoved,
                    id \in DOMAIN added, id \in DOMAIN otherAdded)

CombineMapsWrongSource(added, removed, otherAdded, otherRemoved) ==
    LET ids == GetAllIds(added, otherAdded, removed, otherRemoved)
        mask(id) == MaskOf(id, added, removed, otherAdded, otherRemoved)
        final == {id \in ids : mask(id).added_status # None}
    IN  [panic |-> \E id \in ids : mask(id).panic,
         added |-> [id \in final |->
                      IF id \in DOMAIN added THEN added[id]
                      ELSE otherAdded[id]],
         removed |-> {id \in ids : mask(id).in_removed}]

\* One of the three loops of combine (shapes, stops, trips).
CombineMaps(added, removed, otherAdded, otherRemoved) ==
    LET ids == GetAllIds(added, otherAdded, removed, otherRemoved)
        mask(id) == MaskOf(id, added, removed, otherAdded, otherRemoved)
        final == {id \in ids : mask(id).added_status # None}
    IN  [panic |-> \E id \in ids : mask(id).panic,
         added |-> [id \in final |->
                      IF mask(id).added_status = "self" THEN added[id]
                      ELSE otherAdded[id]],
         removed |-> {id \in ids : mask(id).in_removed}]

Combine(self, other) ==
    LET sh == CombineMaps(self.added_shapes, self.removed_shape_ids,
                          other.added_shapes, other.removed_shape_ids)
        st == CombineMaps(self.added_stops, self.removed_stop_ids,
                          other.added_stops, other.removed_stop_ids)
        tr == CombineMaps(self.added_trips, self.removed_trip_ids,
                          other.added_trips, other.removed_trip_ids)
    IN  IF sh.panic \/ st.panic \/ tr.panic
        THEN [panic |-> TRUE, update |-> EmptyUpdate]
        ELSE [panic |-> FALSE,
              update |-> [added_trips |-> tr.added,
                          removed_trip_ids |-> tr.removed,
                          added_shapes |-> sh.added,
                          removed_shape_ids |-> sh.removed,
                          added_stops |-> st.added,
                          removed_stop_ids |-> st.removed]]

(***************************************************************************)
(* The parts of the state a specification does not use stay at rest.       *)
(***************************************************************************)
OriginAtRest ==
    /\ history = <<>>
    /\ deltas = EmptyMap
    /\ full = <<>>
    /\ now = 0
    /\ upd = [pc |-> "off"]
    /\ last = [op |-> "none"]

originVars == <<history, deltas, full, now, upd, last>>

NoResult == [panic |-> FALSE]

(***************************************************************************)
(* SpecDiff: get_diff and apply_to_schedule on every pair of snapshots,    *)
(* the steps of test_diff_full and test_id (diff/tests.rs).                *)
(***************************************************************************)
DiffIRs == ScheduleIRs(NumVals, NumTripVals)

InitDiff ==
    /\ OriginAtRest
    /\ inp \in [curr : DiffIRs, prev : DiffIRs]
    /\ out = [step |-> "start", diff |-> NoResult, applied |-> NoResult]

\* let two_minus_one = schedule2.get_diff(&schedule1)
DiffStep ==
    /\ out.step = "start"
    /\ out' = [out EXCEPT !.step = "diffed",
                          !.diff = GetDiff(inp.curr, inp.prev)]
    /\ UNCHANGED <<inp, originVars>>

\* let exp_schedule2 = two_minus_one.apply_to_schedule(schedule1)
ApplyStep ==
    /\ out.step = "diffed"
    /\ ~out.diff.panic
    /\ out' = [out EXCEPT !.step = "applied",
                          !.applied = ApplyToSchedule(out.diff.update, inp.prev)]
    /\ UNCHANGED <<inp, originVars>>

\* alt_update.apply_to_schedule(p_schedule.clone()) for the newest entry of
\* update_global_state's loop: the diff applied to the snapshot it leads to
ApplyToTargetStep ==
    /\ out.step = "diffed"
    /\ ~out.diff.panic
    /\ out' = [out EXCEPT !.step = "reapplied",
                          !.applied = ApplyToSchedule(out.diff.update, inp.curr)]
    /\ UNCHANGED <<inp, originVars>>

NextDiff == DiffStep \/ ApplyStep \/ ApplyToTargetStep

SpecDiff == InitDiff /\ [][NextDiff]_vars

SameRoutes(x, y) == DOMAIN x.routes = DOMAIN y.routes

\* C1 (round trip): for snapshots curr and prev with the same set of route
\* ids, get_diff returns an update, and applying curr.get_diff(prev) to prev
\* gives an IR equal to curr, with all its routes, trips, shapes and stops.
C1_RoundTrip ==
    SameRoutes(inp.curr, inp.prev) =>
        /\ out.step # "start" => ~out.diff.panic
        /\ out.step = "applied" =>
              ~out.applied.panic /\ out.applied.ir = inp.curr

C1_Witness ==
    /\ out.step = "applied"
    /\ SameRoutes(inp.curr, inp.prev)
    /\ DOMAIN inp.curr.routes = RouteIds
    /\ out.diff.update.removed_trip_ids # {}
    /\ DOMAIN out.diff.update.added_trips # {}
    /\ out.diff.update.removed_stop_ids # {}
    /\ DOMAIN out.diff.update.added_stops # {}
    /\ out.applied.ir = inp.curr
    /\ inp.curr # inp.prev

TripsOf(ir) ==
    [k \in UNION {{<<r, t>> : t \in DOMAIN ir.routes[r].trips} :
                     r \in DOMAIN ir.routes} |-> ir.routes[k[1]].trips[k[2]]]

TripFields ==
    {"trip_id", "stop_times", "headsign", "shape_id", "direction",
     "mask_start_date", "date_mask"}

\* Two values of one keyed class are unequal; for trips: in some field.
Unequal(x, y, byField) ==
    IF byField THEN \E f \in TripFields : x[f] # y[f] ELSE x # y

\* The four cases of the diff of one keyed class.
Classified(added, removed, currMap, prevMap, keys, byField) ==
    \A k \in keys :
        LET inA == k \in DOMAIN added
            inR == k \in removed
            c == k \in DOMAIN currMap
            p == k \in DOMAIN prevMap
        IN  /\ (inA /\ inR) <=> (c /\ p /\ Unequal(currMap[k], prevMap[k], byField))
            /\ (inA /\ ~inR) <=> (c /\ ~p)
            /\ (~inA /\ inR) <=> (p /\ ~c)
            /\ (~inA /\ ~inR) <=>
                  ((~c /\ ~p) \/ (c /\ p /\ ~Unequal(currMap[k], prevMap[k], byField)))
            /\ inA => added[k] = currMap[k]

\* C7 (diff classification): in the update get_diff returns, a key of a
\* keyed class (stop id, shape id, (route id, trip id)) is in added and
\* removed iff both snapshots hold it with unequal values (trips: unequal in
\* any field), in added only iff only curr holds it, in removed only iff only
\* prev holds it, in neither otherwise; an added value is curr's value.
C7_DiffClassification ==
    (out.step # "start" /\ ~out.diff.panic) =>
        LET u == out.diff.update
        IN  /\ Classified(u.added_stops, u.removed_stop_ids,
                          inp.curr.stops, inp.prev.stops, StopIds, FALSE)
            /\ Classified(u.added_shapes, u.removed_shape_ids,
                          inp.curr.shapes, inp.prev.shapes, ShapeIds, FALSE)
            /\ Classified(u.added_trips, u.removed_trip_ids,
                          TripsOf(inp.curr), TripsOf(inp.prev),
                          RouteIds \X TripIds, TRUE)

\* A trip changed in mask_start_date alone, one changed in stop_times alone,
\* a new stop and a vanished shape.
C7_Witness ==
    /\ out.step = "diffed"
    /\ ~out.diff.panic
    /\ TripsOf(inp.curr) = (<<"A", "t1">> :> TripIR("t1", 3)) @@ (<<"B", "t1">> :> TripIR("t1", 4))
    /\ TripsOf(inp.prev) = (<<"A", "t1">> :> TripIR("t1", 1)) @@ (<<"B", "t1">> :> TripIR("t1", 1))
    /\ out.diff.update.removed_trip_ids = {<<"A", "t1">>, <<"B", "t1">>}
    /\ DOMAIN out.diff.update.added_trips = {<<"A", "t1">>, <<"B", "t1">>}
    /\ DOMAIN out.diff.update.added_stops = {"s1"}
    /\ out.diff.update.removed_stop_ids = {}
    /\ DOMAIN out.diff.update.added_shapes = {}
    /\ out.diff.update.removed_shape_ids = {"h1"}

\* C8 (route-key asymmetry is fatal), as claimed: whenever the route ids of
\* curr and prev differ, get_diff raises and returns no update.
C8_RouteAsymmetryFatal ==
    (out.step # "start" /\ ~SameRoutes(inp.curr, inp.prev)) => out.diff.panic

(***************************************************************************)
(* SpecCompose: three snapshots a, b, c of one feed (same route ids); the  *)
(* two successive diffs are combined and applied to the oldest, as the     *)
(* consistency check of update_global_state does (server.rs:189-196).      *)
(***************************************************************************)
Entities(ir) ==
    Cardinality(TripEntries(ir)) + Cardinality(DOMAIN ir.shapes)
        + Cardinality(DOMAIN ir.stops)

ComposeIRs ==
    {ir \in ScheduleIRs(NumVals, NumVals) : Entities(ir) <= MaxEntities}

InitCompose ==
    /\ OriginAtRest
    /\ inp \in [a : ComposeIRs, b : ComposeIRs, c : ComposeIRs]
    /\ SameRoutes(inp.a, inp.b)
    /\ SameRoutes(inp.b, inp.c)
    /\ out = [step |-> "start", d1 |-> NoResult, d2 |-> NoResult,
              comb |-> NoResult, applied |-> NoResult]

\* d1 = b.get_diff(a); d2 = c.get_diff(b); d1.combine(d2) applied to a
ComposeStep ==
    /\ out.step = "start"
    /\ LET d1 == GetDiff(inp.b, inp.a)
           d2 == GetDiff(inp.c, inp.b)
           comb == IF d1.panic \/ d2.panic THEN [panic |-> TRUE]
                   ELSE Combine(d1.update, d2.update)
           applied == IF comb.panic THEN [panic |-> TRUE]
                      ELSE ApplyToSchedule(comb.update, inp.a)
       IN  out' = [step |-> "done", d1 |-> d1, d2 |-> d2, comb |-> comb,
                   applied |-> applied]
    /\ UNCHANGED <<inp, originVars>>

NextCompose == ComposeStep

SpecCompose == InitCompose /\ [][NextCompose]_vars

\* C2 (delta composition): for snapshots a, b, c with the same route ids,
\* neither diff nor combine raises, and combine(diff(b, a), diff(c, b))
\* applied to a gives an IR equal to c.
C2_DeltaComposition ==
    out.step = "done" =>
        /\ ~out.d1.panic /\ ~out.d2.panic /\ ~out.comb.panic
        /\ ~out.applied.panic
        /\ out.applied.ir = inp.c

\* A stop added then removed while a trip is changed twice.
C2_Witness ==
    /\ out.step = "done"
    /\ DOMAIN inp.a.stops = {} /\ DOMAIN inp.b.stops # {} /\ DOMAIN inp.c.stops = {}
    /\ DOMAIN inp.a.routes = RouteIds
    /\ <<"A", "t1">> \in DOMAIN out.d1.update.added_trips \cap out.d1.update.removed_trip_ids
    /\ <<"A", "t1">> \in DOMAIN out.d2.update.added_trips \cap out.d2.update.removed_trip_ids
    /\ out.applied.ir = inp.c

(***************************************************************************)
(* SpecCombine: combine on hand-built updates, as test_combine builds      *)
(* them, and the two ways of applying them to a base snapshot.             *)
(***************************************************************************)
TripKeys == RouteIds \X TripIds

TripKeyMaps(nv) ==
    UNION {{f \in [D -> {TripIR(t, k) : t \in TripIds, k \in 1..nv}] :
              \A d \in D : f[d].trip_id = d[2]} : D \in SUBSET TripKeys}

Entries(u) ==
    Cardinality(DOMAIN u.added_trips) + Cardinality(u.removed_trip_ids)
        + Cardinality(DOMAIN u.added_shapes) + Cardinality(u.removed_shape_ids)
        + Cardinality(DOMAIN u.added_stops) + Cardinality(u.removed_stop_ids)

\* ScheduleUpdate values with at most MaxEntries entries
Updates ==
    {u \in [added_trips : TripKeyMaps(NumVals),
            removed_trip_ids : SUBSET TripKeys,
            added_shapes : ShapeMaps(NumVals),
            removed_shape_ids : SUBSET ShapeIds,
            added_stops : StopMaps(NumVals),
            removed_stop_ids : SUBSET StopIds] : Entries(u) <= MaxEntries}

InitCombine ==
    /\ OriginAtRest
    /\ inp \in [u1 : Updates, u2 : Updates]
    /\ out = [step |-> "start", comb |-> NoResult, base |-> None,
              seq |-> NoResult, one |-> NoResult]

\* let combo = diff1.combine(&diff2)
CombineStep ==
    /\ out.step = "start"
    /\ out' = [out EXCEPT !.step = "combined",
                          !.comb = Combine(inp.u1, inp.u2)]
    /\ UNCHANGED <<inp, originVars>>

\* u2 applied after u1, and the combined update applied once, to one base
ApplyBothStep ==
    /\ out.step = "combined"
    /\ ~out.comb.panic
    /\ \E base \in ComposeIRs :
          LET mid == ApplyToSchedule(inp.u1, base)
          IN  out' = [out EXCEPT
                        !.step = "applied",
                        !.base = base,
                        !.seq = IF mid.panic THEN [panic |-> TRUE]
                                ELSE ApplyToSchedule(inp.u2, mid.ir),
                        !.one = ApplyToSchedule(out.comb.update, base)]
    /\ UNCHANGED <<inp, originVars>>

NextCombine == CombineStep \/ ApplyBothStep

SpecCombine == InitCombine /\ [][NextCombine]_vars

\* The 4-bit mask (r1, r2, a1, a2) of an id, read off the two updates.
Bit(b) == IF b THEN 1 ELSE 0

Mask(id, added1, removed1, added2, removed2) ==
    <<Bit(id \in removed1), Bit(id \in removed2),
      Bit(id \in DOMAIN added1), Bit(id \in DOMAIN added2)>>

MasksRemoved ==
    {<<0, 1, 0, 0>>, <<0, 1, 0, 1>>, <<0, 1, 1, 1>>, <<1, 0, 0, 0>>,
     <<1, 0, 0, 1>>, <<1, 0, 1, 0>>, <<1, 1, 0, 1>>, <<1, 1, 1, 0>>,
     <<1, 1, 1, 1>>}

MasksAddedFromU2 ==
    {<<0, 0, 0, 1>>, <<0, 1, 0, 1>>, <<0, 1, 1, 1>>, <<1, 0, 0, 1>>,
     <<1, 1, 0, 1>>, <<1, 1, 1, 1>>}

MasksAddedFromU1 == {<<0, 0, 1, 0>>, <<1, 0, 1, 0>>}

MasksImpossible == {<<1, 0, 1, 1>>, <<1, 1, 0, 0>>, <<0, 0, 1, 1>>}

\* The table of one entity class: finalAdded / finalRemoved against the masks.
TableHolds(added1, removed1, added2, removed2, finalAdded, finalRemoved, ids) ==
    \A id \in ids :
        LET m == Mask(id, added1, removed1, added2, removed2)
        IN  /\ id \in finalRemoved <=> m \in MasksRemoved
            /\ id \in DOMAIN finalAdded <=>
                  m \in MasksAddedFromU2 \cup MasksAddedFromU1
            /\ m \in MasksAddedFromU2 => finalAdded[id] = added2[id]
            /\ m \in MasksAddedFromU1 => finalAdded[id] = added1[id]

\* C5 (combine table): when combine(u1, u2) returns, every id of every class
\* is in the combined removed set exactly for the masks 0100, 0101, 0111,
\* 1000, 1001, 1010, 1101, 1110, 1111, in the combined added map with u2's
\* value exactly for 0001, 0101, 0111, 1001, 1101, 1111 and with u1's value
\* exactly for 0010, 1010; for 0110, and for an id neither update touches
\* (0000), it is in neither.
C5_CombineTable ==
    (out.step # "start" /\ ~out.comb.panic) =>
        LET u1 == inp.u1
            u2 == inp.u2
            u3 == out.comb.update
        IN  /\ TableHolds(u1.added_stops, u1.removed_stop_ids,
                          u2.added_stops, u2.removed_stop_ids,
                          u3.added_stops, u3.removed_stop_ids, StopIds)
            /\ TableHolds(u1.added_shapes, u1.removed_shape_ids,
                          u2.added_shapes, u2.removed_shape_ids,
                          u3.added_shapes, u3.removed_shape_ids, ShapeIds)
            /\ TableHolds(u1.added_trips, u1.removed_trip_ids,
                          u2.added_trips, u2.removed_trip_ids,
                          u3.added_trips, u3.removed_trip_ids, TripKeys)

\* Trip (A, t1) has mask 1111 with two different values, trip (B, t1) and the
\* shape and the stop are untouched.
C5_Witness ==
    /\ out.step = "combined"
    /\ ~out.comb.panic
    /\ Mask(<<"A", "t1">>, inp.u1.added_trips, inp.u1.removed_trip_ids,
            inp.u2.added_trips, inp.u2.removed_trip_ids) = <<1, 1, 1, 1>>
    /\ inp.u1.added_trips[<<"A", "t1">>] # inp.u2.added_trips[<<"A", "t1">>]
    /\ out.comb.update.added_trips =
          (<<"A", "t1">> :> inp.u2.added_trips[<<"A", "t1">>])
    /\ out.comb.update.removed_trip_ids = {<<"A", "t1">>}

\* Some id of some class has one of the masks 1011, 1100, 0011.
SomeImpossibleMask(u1, u2) ==
    \/ \E id \in StopIds :
          Mask(id, u1.added_stops, u1.removed_stop_ids,
               u2.added_stops, u2.removed_stop_ids) \in MasksImpossible
    \/ \E id \in ShapeIds :
          Mask(id, u1.added_shapes, u1.removed_shape_ids,
               u2.added_shapes, u2.removed_shape_ids) \in MasksImpossible
    \/ \E id \in TripKeys :
          Mask(id, u1.added_trips, u1.removed_trip_ids,
               u2.added_trips, u2.removed_trip_ids) \in MasksImpossible

\* C6 (impossible masks): combine(u1, u2) raises exactly when some id has
\* mask 1011, 1100 or 0011.
C6_CombineRaises ==
    out.step # "start" =>
        (out.comb.panic <=> SomeImpossibleMask(inp.u1, inp.u2))

\* Shape h1 is removed by both updates (1100) and combine raised.
C6_Witness ==
    /\ out.step = "combined"
    /\ out.comb.panic
    /\ Mask("h1", inp.u1.added_shapes, inp.u1.removed_shape_ids,
            inp.u2.added_shapes, inp.u2.removed_shape_ids) = <<1, 1, 0, 0>>
    /\ Entries(inp.u1) = 1 /\ Entries(inp.u2) = 1

\* Every trip key of u1 and u2 names a route of base.
RoutesKnown(base) ==
    \A k \in inp.u1.removed_trip_ids \cup DOMAIN inp.u1.added_trips
             \cup inp.u2.removed_trip_ids \cup DOMAIN inp.u2.added_trips :
        k[1] \in DOMAIN base.routes

\* C4 (combine contract), as claimed: for every base and every u1, u2 on
\* which combine returns and whose trip keys name routes of base, applying
\* combine(u1, u2) to base equals applying u1 and then u2.
C4_CombineAnyBase ==
    (out.step = "applied" /\ RoutesKnown(out.base)) =>
        /\ ~out.seq.panic /\ ~out.one.panic
        /\ out.one.ir = out.seq.ir

\* No id that u1 adds without removing and u2 removes without adding back
\* (mask 0110) is held by base.
NoAddThenRemoveInBase(base) ==
    /\ \A id \in DOMAIN base.stops :
          Mask(id, inp.u1.added_stops, inp.u1.removed_stop_ids,
               inp.u2.added_stops, inp.u2.removed_stop_ids) # <<0, 1, 1, 0>>
    /\ \A id \in DOMAIN base.shapes :
          Mask(id, inp.u1.added_shapes, inp.u1.removed_shape_ids,
               inp.u2.added_shapes, inp.u2.removed_shape_ids) # <<0, 1, 1, 0>>
    /\ \A id \in DOMAIN TripsOf(base) :
          Mask(id, inp.u1.added_trips, inp.u1.removed_trip_ids,
               inp.u2.added_trips, inp.u2.removed_trip_ids) # <<0, 1, 1, 0>>

\* C4 amended: the same equality, for the bases that hold no id of mask 0110
\* (an id u1 adds without removing it and u2 removes without adding it back).
C4_CombineOnDisjointBase ==
    (out.step = "applied" /\ RoutesKnown(out.base)
        /\ NoAddThenRemoveInBase(out.base)) =>
        /\ ~out.seq.panic /\ ~out.one.panic
        /\ out.one.ir = out.seq.ir

\* u1 adds stop s1 and removes trip (A, t1); u2 removes s1 again and adds the
\* trip back with another value; base holds the trip and not the stop.
C4_Witness ==
    /\ out.step = "applied"
    /\ RoutesKnown(out.base)
    /\ NoAddThenRemoveInBase(out.base)
    /\ Mask("s1", inp.u1.added_stops, inp.u1.removed_stop_ids,
            inp.u2.added_stops, inp.u2.removed_stop_ids) = <<0, 1, 1, 0>>
    /\ Mask(<<"A", "t1">>, inp.u1.added_trips, inp.u1.removed_trip_ids,
            inp.u2.added_trips, inp.u2.removed_trip_ids) = <<1, 0, 0, 1>>
    /\ <<"A", "t1">> \in DOMAIN TripsOf(out.base)
    /\ ~out.seq.panic /\ ~out.one.panic
    /\ out.seq.ir # out.base
    /\ out.one.ir = out.seq.ir

(***************************************************************************)
(* Wire conversions (diff/ir.rs, diff/core.rs).  A Vec collected from a    *)
(* HashMap or HashSet has no fixed order: it is modelled as a bag.         *)
(***************************************************************************)
\* HashMap::into_values().collect()
BagOfValues(m) ==
    [v \in {m[k] : k \in DOMAIN m} |-> Cardinality({k \in DOMAIN m : m[k] = v})]

\* impl From<TripIR> for Trip
ToTrip(tr) == [tr EXCEPT !.stop_times = BagOfValues(tr.stop_times)]

\* impl From<RouteIR> for Route
ToRoute(r) ==
    [route_id |-> r.route_id,
     trips |-> BagOfValues([t \in DOMAIN r.trips |-> ToTrip(r.trips[t])])]

ToFullScheduleSkipEmptyRoutes(ir) ==
    [routes |-> BagOfValues([r \in {x \in DOMAIN ir.routes :
                                      DOMAIN ir.routes[x].trips # {}} |->
                               ToRoute(ir.routes[r])]),
     shapes |-> BagOfValues(ir.shapes),
     stops |-> BagOfValues(ir.stops)]

\* impl From<ScheduleIR> for FullSchedule
ToFullSchedule(ir) ==
    [routes |-> BagOfValues([r \in DOMAIN ir.routes |-> ToRoute(ir.routes[r])]),
     shapes |-> BagOfValues(ir.shapes),
     stops |-> BagOfValues(ir.stops)]

\* impl From<ScheduleUpdate> for ScheduleDiff.  The closure of added_trips
\* binds the second component of the key, the trip id, to route_id.
ToScheduleDiff(u) ==
    [added_trips |->
        BagOfValues([k \in DOMAIN u.added_trips |->
                        [trip |-> ToTrip(u.added_trips[k]), route_id |-> k[2]]]),
     removed_trip_ids |->
        BagOfValues([k \in u.removed_trip_ids |->
                        [trip_id |-> k[2], route_id |-> k[1]]]),
     added_shapes |-> BagOfValues(u.added_shapes),
     removed_shape_ids |-> BagOfValues([k \in u.removed_shape_ids |-> k]),
     added_stops |-> BagOfValues(u.added_stops),
     removed_stop_ids |-> BagOfValues([k \in u.removed_stop_ids |-> k])]

(***************************************************************************)
(* The origin's snapshot history (server.rs).                              *)
(***************************************************************************)
MAX_HISTORY_LEN == 10
INTERVAL_M == 1
LAST_VALID == (60 \div INTERVAL_M) - 1
SleepSecs == 30         \* sleep(Duration::new(30, 0)) of update_loop
BackoffSecs == 1        \* sleep(Duration::from_secs(1)) of the supervisor

MaxCommits == 12        \* commits of one run
MaxRestarts == 1        \* restarts of the supervisor in one run

\* The wall clock at boot, in seconds since midnight of day 0: 10:58:50 and
\* 23:57:50, so that a run crosses an hour and a day boundary.
StartTimes == {10 * 3600 + 58 * 60 + 50, 23 * 3600 + 57 * 60 + 50}

\* The bundles the upstream publishes, in order: a trip and no stop; the
\* trip changed and a stop added; the first bundle again, with a new route
\* that has no active trip; the trip moved to the new route.
Feed ==
    << [routes |-> ("A" :> RouteIR("A", ("t1" :> TripIR("t1", 1)))),
        shapes |-> EmptyMap, stops |-> EmptyMap],
       [routes |-> ("A" :> RouteIR("A", ("t1" :> TripIR("t1", 2)))),
        shapes |-> EmptyMap, stops |-> ("s1" :> Stop("s1", 1))],
       [routes |-> ("A" :> RouteIR("A", ("t1" :> TripIR("t1", 1))))
                   @@ ("B" :> RouteIR("B", EmptyMap)),
        shapes |-> EmptyMap, stops |-> EmptyMap],
       [routes |-> ("A" :> RouteIR("A", EmptyMap))
                   @@ ("B" :> RouteIR("B", ("t1" :> TripIR("t1", 1)))),
        shapes |-> EmptyMap, stops |-> EmptyMap] >>

\* get_next_update; dt in whole seconds.  with_hour(h + 1).with_minute(0)
\* leaves the seconds of dt in place.
GetNextUpdate(dt) ==
    LET day == dt \div 86400
        hour == (dt \div 3600) % 24
        minute == (dt \div 60) % 60
        second == dt % 60
        interval == minute \div INTERVAL_M
    IN  IF interval = LAST_VALID
        THEN IF hour = 23
             THEN (day + 1) * 86400
             ELSE day * 86400 + (hour + 1) * 3600 + second
        ELSE day * 86400 + hour * 3600 + ((interval + 1) * INTERVAL_M) * 60

\* history_locked.remove(0) and diffs_locked.remove(&ts), when the history
\* is full.
EvictKeepOldest(hist, dmap) ==
    IF Len(hist) = MAX_HISTORY_LEN
    THEN [history |-> SubSeq(hist, 1, Len(hist) - 1),
          deltas |-> MapRemoveAll(dmap, {hist[Len(hist)].ts}),
          evicted |-> <<hist[Len(hist)].ts>>]
    ELSE [history |-> hist, deltas |-> dmap, evicted |-> <<>>]

Evict(hist, dmap) ==
    IF Len(hist) = MAX_HISTORY_LEN
    THEN [history |-> Tail(hist),
          deltas |-> MapRemoveAll(dmap, {hist[1].ts}),
          evicted |-> <<hist[1].ts>>]
    ELSE [history |-> hist, deltas |-> dmap, evicted |-> <<>>]

\* The loop over history_locked.iter_mut(), from entry i on: the direct diff,
\* the combined diff and its application, the insert in diffs_map and the
\* replacement of the entry's update.  A panic leaves the entries before i
\* already replaced.
RECURSIVE Rebuild(_, _, _, _, _, _)
Rebuild(i, hist, diffs_map, mismatch, schedule, prev_diff) ==
    IF i > Len(hist)
    THEN [panic |-> FALSE, history |-> hist, diffs_map |-> diffs_map,
          mismatch |-> mismatch]
    ELSE LET e == hist[i]
             update == GetDiff(schedule, e.ir)
             alt_update == Combine(e.update, prev_diff)
             alt_schedule == ApplyToSchedule(alt_update.update, e.ir)
         IN  IF update.panic \/ alt_update.panic \/ alt_schedule.panic
             THEN [panic |-> TRUE, history |-> hist,
                   diffs_map |-> diffs_map, mismatch |-> mismatch]
             ELSE Rebuild(i + 1,
                          [hist EXCEPT ![i].update = update.update],
                          MapInsertAll(diffs_map,
                              (e.ts :> ToScheduleDiff(update.update))),
                          mismatch \/ alt_schedule.ir # schedule,
                          schedule, prev_diff)

\* The assert_eq! calls of verify_global_state.
VerifyGlobalState(hist, dmap) ==
    /\ Len(hist) = Cardinality(DOMAIN dmap)
    /\ {hist[i].ts : i \in 1..Len(hist)} = DOMAIN dmap

\* update_global_state(schedule) at wall-clock second t, on the statics
\* hist, dmap, fl.  The result holds the statics as the call leaves them,
\* and where it panicked, if it did.  `timestamp as u32` is the identity on
\* the seconds of a run (it wraps in the year 2106).
UpdateGlobalStateKeepDiffs(schedule, t, hist, dmap, fl) ==
    LET ev == Evict(hist, dmap)
        prev == IF ev.history = <<>> THEN schedule
                ELSE ev.history[Len(ev.history)].ir
        prev_diff == GetDiff(schedule, prev)
        pushed == Append(ev.history,
                         [ts |-> t, ir |-> schedule,
                          update |-> EmptyUpdate])
        rb == Rebuild(1, pushed, EmptyMap, FALSE, schedule, prev_diff.update)
    IN  IF prev_diff.panic
        THEN [panic |-> "get_diff", history |-> ev.history, deltas |-> ev.deltas,
              full |-> fl, evicted |-> ev.evicted, mismatch |-> FALSE]
        ELSE IF rb.panic
        THEN [panic |-> "rebuild", history |-> rb.history, deltas |-> ev.deltas,
              full |-> <<ToFullSchedule(schedule)>>, evicted |-> ev.evicted,
              mismatch |-> rb.mismatch]
        ELSE [panic |-> IF VerifyGlobalState(rb.history, ev.deltas)
                         THEN None ELSE "assert_eq",
              history |-> rb.history, deltas |-> ev.deltas,
              full |-> <<ToFullSchedule(schedule)>>, evicted |-> ev.evicted,
              mismatch |-> rb.mismatch]

UpdateGlobalStateNewestFromPrev(schedule, t, hist, dmap, fl) ==
    LET ev == Evict(hist, dmap)
        prev == IF ev.history = <<>> THEN schedule
                ELSE ev.history[Len(ev.history)].ir
        prev_diff == GetDiff(schedule, prev)
        rb == Rebuild(1, ev.history, EmptyMap, FALSE, schedule,
                      prev_diff.update)
        pushed == Append(rb.history,
                         [ts |-> t, ir |-> schedule,
                          update |-> prev_diff.update])
        diffs_map == MapInsertAll(rb.diffs_map,
                                  (t :> ToScheduleDiff(prev_diff.update)))
    IN  IF prev_diff.panic
        THEN [panic |-> "get_diff", history |-> ev.history, deltas |-> ev.deltas,
              full |-> fl, evicted |-> ev.evicted, mismatch |-> FALSE]
        ELSE IF rb.panic
        THEN [panic |-> "rebuild", history |-> rb.history, deltas |-> ev.deltas,
              full |-> <<ToFullSchedule(schedule)>>, evicted |-> ev.evicted,
              mismatch |-> rb.mismatch]
        ELSE [panic |-> IF VerifyGlobalState(pushed, diffs_map)
                         THEN None ELSE "assert_eq",
              history |-> pushed, deltas |-> diffs_map,
              full |-> <<ToFullSchedule(schedule)>>, evicted |-> ev.evicted,
              mismatch |-> rb.mismatch]

UpdateGlobalState(schedule, t, hist, dmap, fl) ==
    LET ev == Evict(hist, dmap)
        prev == IF ev.history = <<>> THEN schedule
                ELSE ev.history[Len(ev.history)].ir
        prev_diff == GetDiff(schedule, prev)
        pushed == Append(ev.history,
                         [ts |-> t, ir |-> schedule,
                          update |-> EmptyUpdate])
        rb == Rebuild(1, pushed, EmptyMap, FALSE, schedule, prev_diff.update)
    IN  IF prev_diff.panic
        THEN [panic |-> "get_diff", history |-> ev.history, deltas |-> ev.deltas,
              full |-> fl, evicted |-> ev.evicted, mismatch |-> FALSE]
        ELSE IF rb.panic
        THEN [panic |-> "rebuild", history |-> rb.history, deltas |-> ev.deltas,
              full |-> <<ToFullSchedule(schedule)>>, evicted |-> ev.evicted,
              mismatch |-> rb.mismatch]
        ELSE [panic |-> IF VerifyGlobalState(rb.history, rb.diffs_map)
                         THEN None ELSE "assert_eq",
              history |-> rb.history, deltas |-> rb.diffs_map,
              full |-> <<ToFullSchedule(schedule)>>, evicted |-> ev.evicted,
              mismatch |-> rb.mismatch]

(***************************************************************************)
(* Spec: the origin process.  update_loop under the supervisor of          *)
(* bin/server.rs; the statics outlive a restart of the loops.  A step of   *)
(* the loop other than a sleep takes no time, which is the closest two     *)
(* commits can get.                                                        *)
(***************************************************************************)
Init ==
    /\ history = <<>>
    /\ deltas = EmptyMap
    /\ full = <<>>
    /\ now \in StartTimes
    /\ upd = [pc |-> "boot", next_update |-> 0, restarts |-> 0]
    /\ last = [op |-> "none", n |-> 0, panic |-> None, evicted |-> <<>>,
               mismatch |-> FALSE]
    /\ inp = [feed |-> 1]
    /\ out = NoResult

\* get_update returns bundle v, update_global_state commits it, and
\* next_update is computed; a panic ends the process.
FetchAndCommit(v, pc) ==
    \E c \in {UpdateGlobalState(Feed[v], now, history, deltas, full)} :
        /\ history' = c.history
        /\ deltas' = c.deltas
        /\ full' = c.full
        /\ last' = [op |-> "commit", n |-> last.n + 1, panic |-> c.panic,
                    evicted |-> c.evicted, mismatch |-> c.mismatch]
        /\ upd' = IF c.panic # None
                  THEN [upd EXCEPT !.pc = "crashed"]
                  ELSE [upd EXCEPT !.pc = pc,
                                   !.next_update = GetNextUpdate(now)]
        /\ inp' = [inp EXCEPT !.feed = v]
        /\ UNCHANGED <<now, out>>

\* update_loop, up to its loop: the initial fetch and commit.
Boot ==
    /\ upd.pc = "boot"
    /\ last.n < MaxCommits
    /\ \E v \in inp.feed..Len(Feed) : FetchAndCommit(v, "loop")

\* One turn of the loop at or after next_update.
Tick ==
    /\ upd.pc = "loop"
    /\ now >= upd.next_update
    /\ last.n < MaxCommits
    /\ \E v \in inp.feed..Len(Feed) : FetchAndCommit(v, "sleep")

\* One turn of the loop before next_update.
Skip ==
    /\ upd.pc = "loop"
    /\ now < upd.next_update
    /\ upd' = [upd EXCEPT !.pc = "sleep"]
    /\ UNCHANGED <<history, deltas, full, now, last, inp, out>>

\* sleep(Duration::new(30, 0))
Sleep ==
    /\ upd.pc = "sleep"
    /\ now' = now + SleepSecs
    /\ upd' = [upd EXCEPT !.pc = "loop"]
    /\ UNCHANGED <<history, deltas, full, last, inp, out>>

RestartNoBackoff ==
    /\ upd.restarts < MaxRestarts
    /\ now' = now
    /\ upd' = [upd EXCEPT !.pc = "boot", !.restarts = @ + 1]
    /\ last' = [last EXCEPT !.op = "restart"]
    /\ UNCHANGED <<history, deltas, full, inp, out>>

\* The supervisor: a loop returned Err, both are dropped and started again
\* after the backoff.
Restart ==
    /\ upd.restarts < MaxRestarts
    /\ now' = now + BackoffSecs
    /\ upd' = [upd EXCEPT !.pc = "boot", !.restarts = @ + 1]
    /\ last' = [last EXCEPT !.op = "restart"]
    /\ UNCHANGED <<history, deltas, full, inp, out>>

\* get_update returns Err, at boot or in a turn of the loop.
FetchFail ==
    /\ upd.pc = "boot" \/ (upd.pc = "loop" /\ now >= upd.next_update)
    /\ Restart

\* server_loop returns Err while update_loop sleeps; it serves, and can
\* fail, only once the full schedule is there.
ServerFail ==
    /\ upd.pc = "sleep"
    /\ full # <<>>
    /\ Restart

Next ==
    \/ Boot
    \/ Tick
    \/ Skip
    \/ Sleep
    \/ FetchFail
    \/ ServerFail

Spec == Init /\ [][Next]_vars

\* The (timestamp, IR) pairs of a history, in order.
Snapshots(hist) == [i \in 1..Len(hist) |-> <<hist[i].ts, hist[i].ir>>]

\* What a step may do to the history: a commit (the only step that changes
\* it) drops the oldest entry and its delta key when it finds 10 entries,
\* keeps every other entry in place, and appends at most one entry.
CommitKeepsAllButOldest ==
    LET kept == IF Len(history) = 10 THEN Tail(history) ELSE history
    IN  IF last'.n = last.n
        THEN history' = history /\ deltas' = deltas
        ELSE /\ Len(history') \in {Len(kept), Len(kept) + 1}
             /\ SubSeq(Snapshots(history'), 1, Len(kept)) = Snapshots(kept)
             /\ Len(history) = 10 => history[1].ts \notin DOMAIN deltas'

\* C9 (bounded history, oldest-first eviction): the history never holds more
\* than 10 entries; a commit that finds 10 entries removes exactly the entry
\* at index 0 and its key of the delta map, and no commit removes any other
\* entry.
C9_BoundedHistory ==
    /\ [](Len(history) <= 10)
    /\ [][CommitKeepsAllButOldest]_vars

\* The eleventh commit or a later one has evicted the oldest of 10 entries.
C9_Witness ==
    /\ last.op = "commit"
    /\ last.panic = None
    /\ last.evicted # <<>>
    /\ Len(history) = 10
    /\ last.evicted[1] < history[1].ts
    /\ last.evicted[1] \notin DOMAIN deltas

\* C10 (deltas match history): after every commit the keys of the delta map
\* are the timestamps of the history entries and the two have the same size,
\* so the assert_eq! calls of verify_global_state never fail.
C10_DeltasMatchHistory ==
    /\ last.panic # "assert_eq"
    /\ last.panic = None =>
          /\ DOMAIN deltas = {history[i].ts : i \in 1..Len(history)}
          /\ Cardinality(DOMAIN deltas) = Len(history)

\* A commit one second after the previous one (the supervisor restarted the
\* loops right after a commit), in a history that has already evicted.
C10_Witness ==
    /\ last.op = "commit"
    /\ last.panic = None
    /\ last.evicted # <<>>
    /\ Len(history) = 10
    /\ \E i \in 1..9 : history[i + 1].ts = history[i].ts + 1
    /\ Cardinality(DOMAIN deltas) = 10

\* C11 (increasing timestamps): the timestamps of the history entries
\* strictly increase from oldest to newest in every reachable state, also
\* across the boot commit that follows a supervisor restart.
C11_TimestampsIncrease ==
    \A i \in 1..(Len(history) - 1) : history[i].ts < history[i + 1].ts

\* The boot commit after a restart, one second after the commit before it.
C11_Witness ==
    /\ last.op = "commit"
    /\ last.panic = None
    /\ upd.restarts = 1
    /\ upd.pc = "loop"
    /\ Len(history) >= 3
    /\ history[Len(history)].ts = now
    /\ history[Len(history) - 1].ts = now - 1

\* C12 (delta catalog semantics): after every successful commit of a new IR
\* N, every retained entry (t_i, S_i, u_i) has u_i = diff(N, S_i), deltas[t_i]
\* is the wire form of u_i, and applying u_i to S_i yields N.
C12_DeltaCatalog ==
    (last.panic = None /\ Len(history) > 0) =>
        LET N == history[Len(history)].ir
        IN  \A i \in 1..Len(history) :
                LET e == history[i]
                IN  /\ ~GetDiff(N, e.ir).panic
                    /\ e.update = GetDiff(N, e.ir).update
                    /\ e.ts \in DOMAIN deltas
                    /\ deltas[e.ts] = ToScheduleDiff(e.update)
                    /\ ~ApplyToSchedule(e.update, e.ir).panic
                    /\ ApplyToSchedule(e.update, e.ir).ir = N

\* C13 (wire deltas keep the route): the wire form of an update holds, for
\* every added_trips key (route_id, trip_id), one TripExt whose route_id is
\* that route_id and whose trip has that trip_id, and for every removed key
\* one TripIdTuple with the same (route_id, trip_id).
C13_WireKeepsRoute ==
    last.panic = None =>
        \A i \in 1..Len(history) :
            LET u == history[i].update
                d == deltas[history[i].ts]
            IN  /\ d.added_trips =
                      BagOfValues([k \in DOMAIN u.added_trips |->
                          [trip |-> [ToTrip(u.added_trips[k])
                                        EXCEPT !.trip_id = k[2]],
                           route_id |-> k[1]]])
                /\ d.removed_trip_ids =
                      BagOfValues([k \in u.removed_trip_ids |->
                          [trip_id |-> k[2], route_id |-> k[1]]])

(***************************************************************************)
(* SpecServe: one GetSchedule request at a time against the updater, with  *)
(* the three locks.  A lock is held exactly at the positions named below,  *)
(* so who holds what is read off the two positions:                        *)
(*   upd.pc = "locked_history"        update_loop holds HISTORY (write)    *)
(*                                    and awaits DIFFS (write)             *)
(*   out.pc \in {"have_diffs", "have_rec"}   the handler holds DIFFS (read)*)
(* update_global_state mutates only with HISTORY and DIFFS both held, and  *)
(* the guards taken for a single statement are part of the step.           *)
(***************************************************************************)
\* Response of get_schedule; Option fields are <<>> or <<value>>.
NoResponse ==
    [status |-> "none", full_schedule |-> <<>>, schedule_diff |-> <<>>,
     timestamp |-> <<>>]

GetScheduleFullOnly(timestamp, diff_map, rec_timestamp, fl) ==
    IF fl # <<>>
    THEN [status |-> "ok", full_schedule |-> fl, schedule_diff |-> <<>>,
          timestamp |-> rec_timestamp]
    ELSE [NoResponse EXCEPT !.status = "internal"]

\* ScheduleService::get_schedule, from its reads of the three statics
GetSchedule(timestamp, diff_map, rec_timestamp, fl) ==
    IF timestamp \in DOMAIN diff_map
    THEN [status |-> "ok", full_schedule |-> <<>>,
          schedule_diff |-> <<diff_map[timestamp]>>,
          timestamp |-> rec_timestamp]
    ELSE IF fl # <<>>
    THEN [status |-> "ok", full_schedule |-> fl, schedule_diff |-> <<>>,
          timestamp |-> rec_timestamp]
    ELSE [NoResponse EXCEPT !.status = "internal"]

\* HISTORY_LOCK.read().await.last().map(|(ts, _)| *ts)
LastTimestamp(hist) == IF hist = <<>> THEN <<>> ELSE <<hist[Len(hist)].ts>>

\* The statics as a completed commit leaves them.  last.committed keeps the
\* latest one; out.began and out.ended are the ones in force when a request
\* began and ended, and out.torn tells that it ended after a commit
\* panicked.
Version(hist, dmap, fl) ==
    [timestamp |-> LastTimestamp(hist),
     retained |-> {hist[i].ts : i \in 1..Len(hist)},
     deltas |-> dmap, full |-> fl]

InitServe ==
    /\ history = <<>>
    /\ deltas = EmptyMap
    /\ full = <<>>
    /\ now \in StartTimes
    /\ upd = [pc |-> "boot", next_update |-> 0, restarts |-> 0,
              schedule |-> 0, time |-> 0, srv |-> "waiting"]
    /\ last = [op |-> "none", n |-> 0, panic |-> None, evicted |-> <<>>,
               mismatch |-> FALSE,
               committed |-> Version(<<>>, EmptyMap, <<>>)]
    /\ inp = [feed |-> 1]
    /\ out = [pc |-> "idle", timestamp |-> 0, rec_timestamp |-> <<>>,
              response |-> NoResponse,
              began |-> Version(<<>>, EmptyMap, <<>>),
              ended |-> Version(<<>>, EmptyMap, <<>>), torn |-> FALSE]

\* get_update returns bundle v; update_global_state reads the clock and
\* takes HISTORY_LOCK.write().
CommitLock ==
    /\ upd.pc = "boot" \/ (upd.pc = "loop" /\ now >= upd.next_update)
    /\ last.n < MaxCommits
    /\ \E v \in inp.feed..Len(Feed) :
          /\ upd' = [upd EXCEPT !.pc = "locked_history", !.schedule = v,
                                !.time = now,
                                !.next_update = IF upd.pc = "boot" THEN 0 ELSE @]
          /\ inp' = [inp EXCEPT !.feed = v]
    /\ UNCHANGED <<history, deltas, full, now, last, out>>

\* DIFFS_LOCK.write() is granted once no handler holds DIFFS_LOCK.read();
\* then the rest of update_global_state, and next_update.  A panic unwinds
\* through the guards, which releases the locks before the process ends.
CommitWrite ==
    /\ upd.pc = "locked_history"
    /\ out.pc \notin {"have_diffs", "have_rec"}
    /\ \E c \in {UpdateGlobalState(Feed[upd.schedule], upd.time,
                                   history, deltas, full)} :
          /\ history' = c.history
          /\ deltas' = c.deltas
          /\ full' = c.full
          /\ last' = [op |-> "commit", n |-> last.n + 1, panic |-> c.panic,
                      evicted |-> c.evicted, mismatch |-> c.mismatch,
                      committed |-> IF c.panic = None
                                    THEN Version(c.history, c.deltas, c.full)
                                    ELSE last.committed]
          /\ upd' = IF c.panic # None
                    THEN [upd EXCEPT !.pc = "crashed"]
                    ELSE [upd EXCEPT
                            !.pc = IF upd.next_update = 0 THEN "loop"
                                   ELSE "sleep",
                            !.next_update = GetNextUpdate(now)]
    /\ UNCHANGED <<now, inp, out>>

\* The main thread has unwound: the process ends.
Exit ==
    /\ upd.pc = "crashed"
    /\ upd' = [upd EXCEPT !.pc = "dead"]
    /\ UNCHANGED <<history, deltas, full, now, last, inp, out>>

ServerReadyEarly ==
    /\ upd.srv = "waiting"
    /\ upd.pc \in {"sleep", "locked_history", "boot"}
    /\ upd' = [upd EXCEPT !.srv = "serving"]
    /\ UNCHANGED <<history, deltas, full, now, last, inp, out>>

\* server_loop leaves its wait for FULL_LOCK to hold a schedule and serves;
\* it is polled when update_loop is pending.
ServerReady ==
    /\ upd.srv = "waiting"
    /\ upd.pc \in {"sleep", "locked_history"}
    /\ full # <<>>
    /\ upd' = [upd EXCEPT !.srv = "serving"]
    /\ UNCHANGED <<history, deltas, full, now, last, inp, out>>

\* The client timestamps tried: none (0), the oldest and the newest
\* retained, the one evicted last, the one of a commit that has not
\* completed.
ClientTimestamps ==
    {0} \cup {history[i].ts : i \in {1, Len(history)} \cap DOMAIN history}
        \cup {last.evicted[i] : i \in DOMAIN last.evicted}
        \cup (IF upd.pc = "locked_history" THEN {upd.time} ELSE {})

\* get_schedule up to DIFFS_LOCK.read()
Request ==
    /\ upd.srv = "serving"
    /\ upd.pc # "dead"
    /\ out.pc = "idle"
    /\ \E c \in ClientTimestamps :
          out' = [pc |-> "have_diffs", timestamp |-> c, rec_timestamp |-> <<>>,
                  response |-> NoResponse, began |-> last.committed,
                  ended |-> last.committed, torn |-> FALSE]
    /\ UNCHANGED <<history, deltas, full, now, upd, last, inp>>

\* HISTORY_LOCK.read(), granted while update_loop does not hold the write
\* lock
ReadHistory ==
    /\ upd.pc \notin {"dead", "locked_history"}
    /\ out.pc = "have_diffs"
    /\ out' = [out EXCEPT !.pc = "have_rec",
                          !.rec_timestamp = LastTimestamp(history)]
    /\ UNCHANGED <<history, deltas, full, now, upd, last, inp>>

\* The lookup in diff_map, FULL_LOCK.read(), the response; the guards drop.
Respond ==
    /\ upd.pc # "dead"
    /\ out.pc = "have_rec"
    /\ out' = [out EXCEPT
                 !.pc = "idle",
                 !.response = GetSchedule(out.timestamp, deltas,
                                          out.rec_timestamp, full),
                 !.ended = last.committed,
                 !.torn = last.panic # None]
    /\ UNCHANGED <<history, deltas, full, now, upd, last, inp>>

NextServe ==
    \/ CommitLock
    \/ CommitWrite
    \/ Skip
    \/ Sleep
    \/ Exit
    \/ ServerReady
    \/ Request
    \/ ReadHistory
    \/ Respond

SpecServe == InitServe /\ [][NextServe]_vars

\* C14 (GetSchedule selection): once a commit has happened, a request with
\* client timestamp c gets the delta deltas[c] and no full schedule when c
\* is a retained history timestamp, and the full current schedule and no
\* delta otherwise (also when c was evicted); exactly one of the two is
\* present and the timestamp is the newest history timestamp.
C14_Selection ==
    (out.pc = "idle" /\ out.response.status # "none" /\ ~out.torn) =>
        LET V == out.ended
            r == out.response
        IN  /\ r.status = "ok"
            /\ V.timestamp # <<>>
            /\ r.timestamp = V.timestamp
            /\ IF out.timestamp \in V.retained
               THEN /\ r.schedule_diff = <<V.deltas[out.timestamp]>>
                    /\ r.full_schedule = <<>>
               ELSE /\ r.full_schedule = V.full
                    /\ r.full_schedule # <<>>
                    /\ r.schedule_diff = <<>>

\* A request with the timestamp evicted by the latest commit got the full
\* schedule.
C14_Witness ==
    /\ out.pc = "idle"
    /\ ~out.torn
    /\ last.panic = None
    /\ last.evicted = <<out.timestamp>>
    /\ out.ended = last.committed
    /\ out.response.status = "ok"
    /\ out.response.full_schedule = full
    /\ out.response.schedule_diff = <<>>
    /\ out.response.timestamp = LastTimestamp(history)

\* C15 (not ready): no GetSchedule call returns a successful response
\* before the first commit has completed; a call made while the full
\* schedule is absent returns an internal error, and the server loop does
\* not accept requests until the full schedule is there.
C15_NotReady ==
    /\ upd.srv = "serving" => (full # <<>> /\ last.committed.timestamp # <<>>)
    /\ out.pc # "idle" => out.began.timestamp # <<>>
    /\ out.response.status = "ok" => out.began.timestamp # <<>>
    /\ full = <<>> =>
          \A c \in ClientTimestamps :
             GetSchedule(c, deltas, LastTimestamp(history), full).status
                = "internal"

\* The first successful response: the full schedule of the first commit,
\* with the server serving.
C15_Witness ==
    /\ last.n = 1
    /\ last.panic = None
    /\ upd.srv = "serving"
    /\ out.pc = "idle"
    /\ out.response.status = "ok"
    /\ out.response.full_schedule = full
    /\ out.began = last.committed

\* A response agrees with version V of the statics.
Consistent(r, c, V) ==
    /\ r.timestamp = V.timestamp
    /\ \/ /\ c \in DOMAIN V.deltas
          /\ r.schedule_diff = <<V.deltas[c]>>
          /\ r.full_schedule = <<>>
       \/ /\ r.full_schedule = V.full
          /\ r.schedule_diff = <<>>

\* C16 (atomic observation): under any interleaving of requests and commits
\* every successful response agrees with a single committed version: its
\* timestamp and its delta (or full schedule) are those of one version, not
\* pieces of two versions or of a half-finished commit.
C16_AtomicObservation ==
    (out.pc = "idle" /\ out.response.status = "ok") =>
        \/ Consistent(out.response, out.timestamp, out.began)
        \/ Consistent(out.response, out.timestamp, out.ended)

\* C17 (transactional commit): when a commit hits a data-invariant
\* violation, history, deltas and the full schedule are afterwards exactly
\* what they were before the commit began, also when the history was full
\* (no entry evicted, no delta key removed).
C17_TransactionalCommit ==
    [][(last'.n # last.n /\ last'.panic # None) =>
          (history' = history /\ deltas' = deltas /\ full' = full)]_vars

\* C18 (immaterial updates are not committed): on a tick whose freshly
\* built IR equals the last committed IR, history, deltas and the full
\* schedule are left unchanged.
C18_ImmaterialNotCommitted ==
    [][(/\ upd.pc = "loop"
        /\ last'.n # last.n
        /\ history # <<>>
        /\ Feed[inp'.feed] = history[Len(history)].ir) =>
          (history' = history /\ deltas' = deltas /\ full' = full)]_vars

(***************************************************************************)
(* SpecBuild: ScheduleIR::try_from_schedule_with_dates (diff/ir.rs) on a   *)
(* feed with one trip, its service row and its service exceptions, over a  *)
(* window that crosses the end of April 2025.                              *)
(***************************************************************************)
MaxDays == 3        \* `days`, the length of the window

\* NaiveDate: day n counts from Monday 2025-04-28, so that start_date + day
\* is n + day; year(), month(), day() and weekday() for April and May 2025.
YearOf(n) == 2025

MonthOf(n) == IF n <= 2 THEN 4 ELSE 5

DayOf(n) == IF n <= 2 THEN 28 + n ELSE n - 2

\* Weekday, 0 for Monday
WeekdayOf(n) == n % 7

\* {:0w}: the decimal digits of x, zero-padded to w.
Pad(x, w) == [i \in 1..w |-> (x \div (10 ^ (w - i))) % 10]

\* format!("{:04}{:02}{:02}", date.year(), date.month(), date.day())
FormatDate(n) == Pad(YearOf(n), 4) \o Pad(MonthOf(n), 2) \o Pad(DayOf(n), 2)

\* String's `<=`: lexicographic by character, a proper prefix is smaller.
RECURSIVE StrLeq(_, _)
StrLeq(a, b) ==
    IF a = <<>> THEN TRUE
    ELSE IF b = <<>> THEN FALSE
    ELSE IF Head(a) # Head(b) THEN Head(a) < Head(b)
    ELSE StrLeq(Tail(a), Tail(b))

\* The body of the loop over `day` without the exception lookup.
ActiveNoException(value, service_id, n) ==
    IF service_id \in DOMAIN value.services
    THEN LET service == value.services[service_id]
         IN  /\ WeekdayOf(n) \in service.weekdays
             /\ StrLeq(service.start_date, FormatDate(n))
             /\ StrLeq(FormatDate(n), service.end_date)
    ELSE FALSE

ActiveAnyException(value, service_id, n) ==
    \/ ActiveNoException(value, service_id, n)
    \/ /\ service_id \in DOMAIN value.service_exceptions
       /\ FormatDate(n) \in DOMAIN value.service_exceptions[service_id]

\* `active` for the date n: the service row's weekday flag within its
\* start and end dates, overwritten by a service exception of that date.
Active(value, service_id, n) ==
    LET date_str == FormatDate(n)
        by_service == ActiveNoException(value, service_id, n)
    IN  IF service_id \in DOMAIN value.service_exceptions
        THEN IF date_str \in DOMAIN value.service_exceptions[service_id]
             THEN value.service_exceptions[service_id][date_str] = "Added"
             ELSE by_service
        ELSE by_service

\* for day in 0..days { if active { date_mask += 1 << day } }, from `day` on
RECURSIVE DateMask(_, _, _, _, _)
DateMask(value, service_id, start_date, days, day) ==
    IF day >= days THEN 0
    ELSE (IF Active(value, service_id, start_date + day) THEN 2 ^ day ELSE 0)
         + DateMask(value, service_id, start_date, days, day + 1)

\* The TripIR built for trip_id (no stop_times, shape, headsign or
\* direction in the feed).
BuiltTrip(value, trip_id, start_date, days) ==
    [trip_id |-> trip_id,
     stop_times |-> EmptyMap,
     headsign |-> None,
     shape_id |-> None,
     direction |-> None,
     mask_start_date |-> FormatDate(start_date),
     date_mask |-> DateMask(value, value.trips[trip_id].service_id,
                            start_date, days, 0)]

TryFromScheduleWithDatesKeepZero(value, start_date, days) ==
    [routes |->
        [r \in value.routes |->
            RouteIR(r,
                LET kept == {t \in DOMAIN value.trips :
                                value.trips[t].route_id = r}
                IN  [t \in kept |-> BuiltTrip(value, t, start_date, days)])],
     shapes |-> EmptyMap,
     stops |-> EmptyMap]

\* A route per feed route; every trip with a non-zero date_mask is put into
\* its route when the feed has that route.
TryFromScheduleWithDates(value, start_date, days) ==
    [routes |->
        [r \in value.routes |->
            RouteIR(r,
                LET kept == {t \in DOMAIN value.trips :
                                /\ value.trips[t].route_id = r
                                /\ BuiltTrip(value, t, start_date,
                                             days).date_mask # 0}
                IN  [t \in kept |-> BuiltTrip(value, t, start_date, days)])],
     shapes |-> EmptyMap,
     stops |-> EmptyMap]

\* Inputs: the window starts on Tuesday 2025-04-29 or Wednesday 2025-04-30;
\* the service runs on some of Tuesday..Thursday between two dates out of
\* 2025-04-30..2025-05-02; exceptions exist for some of 2025-04-30 and
\* 2025-05-01.
StartDates == {1, 2}

ServiceWeekdays == {1, 2, 3}

ServiceDates == {FormatDate(n) : n \in 2..4}

ExceptionDates == {FormatDate(n) : n \in 2..3}

ServiceRows ==
    [weekdays : SUBSET ServiceWeekdays, start_date : ServiceDates,
     end_date : ServiceDates]

ExceptionMaps ==
    UNION {[D -> {"Added", "Removed"}] : D \in SUBSET ExceptionDates}

\* gtfs_parsing::schedule::Schedule, the fields the date mask depends on
Schedules ==
    {[routes |-> rs,
      trips |-> ("t1" :> [route_id |-> "A", service_id |-> "svc"]),
      services |-> sv,
      service_exceptions |-> ex] :
        rs \in {{"A"}, {"A", "B"}, {"B"}},
        sv \in {EmptyMap} \cup {("svc" :> row) : row \in ServiceRows},
        ex \in {EmptyMap} \cup {("svc" :> m) : m \in ExceptionMaps}}

InitBuild ==
    /\ OriginAtRest
    /\ inp \in [value : Schedules, start_date : StartDates,
                days : 1..MaxDays]
    /\ out = [step |-> "start", ir |-> <<>>]

\* ScheduleIR::try_from_schedule_with_dates(schedule, start_date, days)
BuildStep ==
    /\ out.step = "start"
    /\ out' = [step |-> "built",
               ir |-> <<TryFromScheduleWithDates(inp.value, inp.start_date,
                                                 inp.days)>>]
    /\ UNCHANGED <<inp, originVars>>

NextBuild == BuildStep

SpecBuild == InitBuild /\ [][NextBuild]_vars

\* The trips of a built IR, whatever their route.
BuiltTrips ==
    IF out.step = "built"
    THEN UNION {{out.ir[1].routes[r].trips[t] :
                    t \in DOMAIN out.ir[1].routes[r].trips} :
                r \in DOMAIN out.ir[1].routes}
    ELSE {}

\* A YYYYMMDD string read as a number, and the calendar date n as that number.
RECURSIVE DateNumber(_)
DateNumber(str) ==
    IF str = <<>> THEN 0
    ELSE 10 * DateNumber(SubSeq(str, 1, Len(str) - 1)) + str[Len(str)]

CalendarNumber(n) == YearOf(n) * 10000 + MonthOf(n) * 100 + DayOf(n)

\* The trip of the feed is active on the date n: by its service row (the
\* row exists, has the weekday of n set, and n lies between its dates),
\* unless an exception exists for that date, which decides.
ActiveOn(n) ==
    LET v == inp.value
        excs == IF "svc" \in DOMAIN v.service_exceptions
                THEN {d \in DOMAIN v.service_exceptions["svc"] :
                         DateNumber(d) = CalendarNumber(n)}
                ELSE {}
    IN  IF excs # {}
        THEN \A d \in excs : v.service_exceptions["svc"][d] = "Added"
        ELSE /\ "svc" \in DOMAIN v.services
             /\ WeekdayOf(n) \in v.services["svc"].weekdays
             /\ DateNumber(v.services["svc"].start_date) <= CalendarNumber(n)
             /\ CalendarNumber(n) <= DateNumber(v.services["svc"].end_date)

\* C19 (date mask non-zero): every trip of an IR produced by the builder
\* has date_mask # 0 and mask_start_date equal to the window start date as
\* YYYYMMDD; a source trip active on no day of the window is not in the IR.
C19_BuiltTripsNonZero ==
    out.step = "built" =>
        /\ \A t \in BuiltTrips :
              /\ t.date_mask # 0
              /\ Len(t.mask_start_date) = 8
              /\ DateNumber(t.mask_start_date) = CalendarNumber(inp.start_date)
        /\ (\A k \in 0..(inp.days - 1) : ~ActiveOn(inp.start_date + k))
              => BuiltTrips = {}

\* A trip kept for a window that starts on 2025-04-30 and reaches into May.
C19_Witness ==
    /\ out.step = "built"
    /\ inp.days = MaxDays
    /\ \E t \in BuiltTrips :
          /\ t.mask_start_date = <<2, 0, 2, 5, 0, 4, 3, 0>>
          /\ t.date_mask = 2
    /\ "svc" \in DOMAIN inp.value.services
    /\ inp.value.service_exceptions = EmptyMap

\* C20 (date mask computation): for every kept trip and every k below
\* days, bit k of date_mask is set iff the trip is active on start_date + k
\* (service row with the weekday flag within its dates, overridden by an
\* exception of that date); no bit at a position >= days is set.
C20_DateMaskBits ==
    out.step = "built" =>
        \A t \in BuiltTrips :
           /\ \A k \in 0..(inp.days - 1) :
                 ((t.date_mask \div (2 ^ k)) % 2 = 1)
                    <=> ActiveOn(inp.start_date + k)
           /\ t.date_mask < 2 ^ inp.days

\* The service runs on 2025-04-30 and not on 2025-05-01; an exception
\* removes the first date and another adds the second.
C20_Witness ==
    /\ out.step = "built"
    /\ inp.start_date = 2
    /\ inp.days >= 2
    /\ "svc" \in DOMAIN inp.value.services
    /\ "svc" \in DOMAIN inp.value.service_exceptions
    /\ ActiveNoException(inp.value, "svc", 2)
    /\ ~ActiveNoException(inp.value, "svc", 3)
    /\ inp.value.service_exceptions["svc"] =
          (FormatDate(2) :> "Removed") @@ (FormatDate(3) :> "Added")
    /\ \E t \in BuiltTrips : t.date_mask % 4 = 2

\* C21 (unknown routes rejected): when a source trip with a non-zero
\* date_mask names a route_id that is not among the schedule's routes,
\* building the IR fails with a fatal data error (no IR is produced); the
\* trip is not silently dropped.
C21_UnknownRouteFatal ==
    (/\ out.step = "built"
     /\ \E t \in DOMAIN inp.value.trips :
           /\ inp.value.trips[t].route_id \notin inp.value.routes
           /\ DateMask(inp.value, inp.value.trips[t].service_id,
                       inp.start_date, inp.days, 0) # 0)
        => out.ir = <<>>

(***************************************************************************)
(* SpecStopTime: From<gtfs StopTime> for StopTime and time_str_to_int      *)
(* (diff/ir.rs) on the time strings "H:MM:SS" of a stop_times row.         *)
(***************************************************************************)
MaxHour == 11       \* largest hour of a source time

DigitChars == <<"0", "1", "2", "3", "4", "5", "6", "7", "8", "9">>

\* The decimal text of x, at least w characters wide.
RECURSIVE Decimal(_, _)
Decimal(x, w) ==
    IF x < 10 /\ w <= 1 THEN <<DigitChars[x + 1]>>
    ELSE Append(Decimal(x \div 10, w - 1), DigitChars[(x % 10) + 1])

\* The text of a GTFS time: hours, then minutes and seconds on two digits.
TimeString(t) ==
    Decimal(t.h, 1) \o <<":">> \o Decimal(t.m, 2) \o <<":">> \o Decimal(t.s, 2)

\* str::split(":"), the parts in the order of the text
RECURSIVE Split(_, _)
Split(str, part) ==
    IF str = <<>> THEN <<part>>
    ELSE IF Head(str) = ":" THEN <<part>> \o Split(Tail(str), <<>>)
    ELSE Split(Tail(str), Append(part, Head(str)))

\* p.parse::<u32>().unwrap_or_default(): 0 for a part that is not a number
RECURSIVE ParseDigits(_, _)
ParseDigits(part, acc) ==
    IF part = <<>> THEN acc
    ELSE ParseDigits(Tail(part),
                     10 * acc + (CHOOSE d \in 0..9 :
                                    DigitChars[d + 1] = Head(part)))

ParseU32(part) ==
    IF part # <<>> /\ \A i \in 1..Len(part) :
                         \E d \in 1..10 : DigitChars[d] = part[i]
    THEN ParseDigits(part, 0)
    ELSE 0

\* for (i, part) in parts.enumerate() { res += part * 60u32.pow(i) }
RECURSIVE SumParts(_, _)
SumParts(parts, i) ==
    IF i > Len(parts) THEN 0
    ELSE parts[i] * (60 ^ (i - 1)) + SumParts(parts, i + 1)

\* time_str_to_int: None for an absent time, else the sum over the parts.
TimeStrToInt(time) ==
    IF time = <<>> THEN <<>>
    ELSE LET parts == Split(time[1], <<>>)
             nums == [i \in 1..Len(parts) |-> ParseU32(parts[i])]
         IN  <<SumParts(nums, 1)>>

\* From<gtfs_parsing::schedule::stop_times::StopTime> for StopTime
ToStopTime(value) ==
    [stop_id |-> value.stop_id,
     arrival_time |-> TimeStrToInt(value.arrival_time),
     departure_time |-> TimeStrToInt(value.departure_time),
     stop_sequence |-> <<value.stop_sequence>>]

\* Source times: every hour up to MaxHour with a few minutes and seconds.
SourceTimes == [h : 0..MaxHour, m : {0, 7, 59}, s : {0, 7, 59}]

OptionalTimes == {<<>>} \cup {<<t>> : t \in SourceTimes}

OptionText(t) == IF t = <<>> THEN <<>> ELSE <<TimeString(t[1])>>

InitStopTime ==
    /\ OriginAtRest
    /\ inp \in [arrival : OptionalTimes, departure : OptionalTimes]
    /\ out = [step |-> "start", stop_time |-> <<>>]

\* v.into() for one stop_times row of the feed
StopTimeStep ==
    /\ out.step = "start"
    /\ out' = [step |-> "converted",
               stop_time |->
                  <<ToStopTime([stop_id |-> "s1",
                                arrival_time |-> OptionText(inp.arrival),
                                departure_time |-> OptionText(inp.departure),
                                stop_sequence |-> 1])>>]
    /\ UNCHANGED <<inp, originVars>>

NextStopTime == StopTimeStep

SpecStopTime == InitStopTime /\ [][NextStopTime]_vars

Seconds(t) == IF t = <<>> THEN <<>> ELSE <<3600 * t[1].h + 60 * t[1].m + t[1].s>>

\* C22 (StopTime seconds): for every source time "H:MM:SS" the integer
\* arrival_time / departure_time stored in the IR equals 3600 H + 60 M + S;
\* an absent source time stays absent.
C22_StopTimeSeconds ==
    out.step = "converted" =>
        /\ out.stop_time[1].arrival_time = Seconds(inp.arrival)
        /\ out.stop_time[1].departure_time = Seconds(inp.departure)

(***************************************************************************)
(* SpecWire: From<ScheduleIR> for FullSchedule on every snapshot, the step *)
(* of test_from_ir (diff/tests.rs).  The snapshots include a trip with two *)
(* stop_times.                                                             *)
(***************************************************************************)
WireIRs == ScheduleIRs(NumVals, NumTripVals + 1)

InitWire ==
    /\ OriginAtRest
    /\ inp \in [schedule : WireIRs]
    /\ out = [step |-> "start", full_schedule |-> <<>>]

\* let full_schedule: FullSchedule = schedule.clone().into()
WireStep ==
    /\ out.step = "start"
    /\ out' = [step |-> "wired",
               full_schedule |-> <<ToFullSchedule(inp.schedule)>>]
    /\ UNCHANGED <<inp, originVars>>

NextWire == WireStep

SpecWire == InitWire /\ [][NextWire]_vars

\* The number of trips, and of stop_times, of an IR.
IRTripCount(ir) ==
    Cardinality({<<r, t>> \in (DOMAIN ir.routes) \X TripIds :
                    t \in DOMAIN ir.routes[r].trips})

IRStopTimeCount(ir) ==
    Cardinality(UNION {{<<r, t, q>> : q \in DOMAIN ir.routes[r].trips[t].stop_times} :
                       <<r, t>> \in {<<x, y>> \in (DOMAIN ir.routes) \X TripIds :
                                        y \in DOMAIN ir.routes[x].trips}})

\* The number of stop_times of the trips of a Vec<Trip>, and the numbers of
\* trips and of stop_times of the routes of a Vec<Route>.
RECURSIVE StopTimesOfTrips(_)
StopTimesOfTrips(trips) ==
    IF BagToSet(trips) = {} THEN 0
    ELSE LET tr == CHOOSE x \in BagToSet(trips) : TRUE
         IN  trips[tr] * BagCardinality(tr.stop_times)
             + StopTimesOfTrips([x \in BagToSet(trips) \ {tr} |-> trips[x]])

RECURSIVE WireTripCount(_)
WireTripCount(routes) ==
    IF BagToSet(routes) = {} THEN 0
    ELSE LET ro == CHOOSE x \in BagToSet(routes) : TRUE
         IN  routes[ro] * BagCardinality(ro.trips)
             + WireTripCount([x \in BagToSet(routes) \ {ro} |-> routes[x]])

RECURSIVE WireStopTimeCount(_)
WireStopTimeCount(routes) ==
    IF BagToSet(routes) = {} THEN 0
    ELSE LET ro == CHOOSE x \in BagToSet(routes) : TRUE
         IN  routes[ro] * StopTimesOfTrips(ro.trips)
             + WireStopTimeCount([x \in BagToSet(routes) \ {ro} |-> routes[x]])

\* C23 (deterministic wire shape): the FullSchedule produced from an IR has
\* exactly as many routes, shapes and stops as the IR, and its total
\* numbers of trips and of stop_times equal the IR's sums.
C23_WireShape ==
    out.step = "wired" =>
        LET ir == inp.schedule
            fs == out.full_schedule[1]
        IN  /\ BagCardinality(fs.routes) = Cardinality(DOMAIN ir.routes)
            /\ BagCardinality(fs.shapes) = Cardinality(DOMAIN ir.shapes)
            /\ BagCardinality(fs.stops) = Cardinality(DOMAIN ir.stops)
            /\ WireTripCount(fs.routes) = IRTripCount(ir)
            /\ WireStopTimeCount(fs.routes) = IRStopTimeCount(ir)

\* Two routes, one without trips and one whose trip has two stop_times,
\* a shape and a stop.
C23_Witness ==
    /\ out.step = "wired"
    /\ DOMAIN inp.schedule.routes = {"A", "B"}
    /\ DOMAIN inp.schedule.routes["A"].trips = {}
    /\ IRStopTimeCount(inp.schedule) = 2
    /\ WireStopTimeCount(out.full_schedule[1].routes) = 2
    /\ BagCardinality(out.full_schedule[1].routes) = 2
    /\ BagCardinality(out.full_schedule[1].shapes) = 1
    /\ BagCardinality(out.full_schedule[1].stops) = 1

(***************************************************************************)
(* The cacher (cacher.rs).  In the specifications of the cacher `out` is   *)
(* the cacher process: its statics GRPC_CLIENT, LAST_UPDATE and            *)
(* CACHED_SCHEDULE and its request handlers; `inp` is what reaches it from *)
(* outside; `history` is the origin's history.                             *)
(***************************************************************************)
GRPC_URL_PATH == "/db_transit.Schedule/GetSchedule"
MAX_CACHE_ENTRIES == 20

\* Result<Response<LastUpdateResponse>, Status> of client.get_last_update
LastUpdateErr == [ok |-> FALSE, timestamp |-> <<>>]

LastUpdateOk(timestamp) == [ok |-> TRUE, timestamp |-> timestamp]

CheckCacheValidityNoStore(client, resp, last_update, cache) ==
    LET clearing == \/ client = <<>>
                    \/ ~resp.ok
                    \/ resp.timestamp = <<>>
                    \/ resp.timestamp # <<last_update>>
    IN  [clearing |-> clearing,
         LAST_UPDATE |-> last_update,
         CACHED_SCHEDULE |-> IF clearing THEN EmptyMap ELSE cache]

\* check_cache_validity, given the outcome of get_last_update: the new
\* LAST_UPDATE and CACHED_SCHEDULE, and whether it cleared.
CheckCacheValidity(client, resp, last_update, cache) ==
    LET clearing ==
            IF client # <<>>
            THEN IF resp.ok
                 THEN IF resp.timestamp # <<>>
                      THEN resp.timestamp[1] # last_update
                      ELSE TRUE
                 ELSE TRUE
            ELSE TRUE
        stored ==
            IF client # <<>> /\ resp.ok
            THEN IF resp.timestamp # <<>>
                 THEN IF resp.timestamp[1] # last_update
                      THEN resp.timestamp[1]
                      ELSE last_update
                 ELSE 0
            ELSE last_update
    IN  [clearing |-> clearing,
         LAST_UPDATE |-> stored,
         CACHED_SCHEDULE |-> IF clearing THEN EmptyMap ELSE cache]

\* What the origin answers to the request body `key` while its newest
\* timestamp is `timestamp`: body, headers and trailers of the response.
UpstreamResponse(key, timestamp) ==
    [bvec |-> <<key, timestamp>>,
     headers |-> [content_type |-> "application/grpc"],
     trailers |-> [grpc_status |-> 0]]

(***************************************************************************)
(* SpecCheck: check_cache_validity on every state of the statics and every *)
(* outcome of the GetLastUpdate call.                                      *)
(***************************************************************************)
RequestKeys == {1, 2}

LastUpdates == {0} \cup StartTimes

LastUpdateResults ==
    {LastUpdateErr, LastUpdateOk(<<>>)}
       \cup {LastUpdateOk(<<t>>) : t \in LastUpdates}

Caches ==
    UNION {[D -> {UpstreamResponse(k, t) : k \in D, t \in StartTimes}] :
              D \in SUBSET RequestKeys}

InitCheck ==
    /\ OriginAtRest
    /\ inp \in [GRPC_CLIENT : {<<>>, <<"client">>},
                resp : LastUpdateResults,
                LAST_UPDATE : LastUpdates,
                CACHED_SCHEDULE : Caches]
    \* the statics change only in a check made with the client set up
    /\ inp.GRPC_CLIENT = <<>> =>
          (inp.LAST_UPDATE = 0 /\ inp.CACHED_SCHEDULE = EmptyMap)
    /\ out = [step |-> "start", clearing |-> FALSE,
              LAST_UPDATE |-> inp.LAST_UPDATE,
              CACHED_SCHEDULE |-> inp.CACHED_SCHEDULE]

\* check_cache_validity().await
CheckStep ==
    /\ out.step = "start"
    /\ \E c \in {CheckCacheValidity(inp.GRPC_CLIENT, inp.resp,
                                    out.LAST_UPDATE, out.CACHED_SCHEDULE)} :
          out' = [step |-> "checked", clearing |-> c.clearing,
                  LAST_UPDATE |-> c.LAST_UPDATE,
                  CACHED_SCHEDULE |-> c.CACHED_SCHEDULE]
    /\ UNCHANGED <<inp, originVars>>

NextCheck == CheckStep

SpecCheck == InitCheck /\ [][NextCheck]_vars

\* The three unrecoverable paths of the check, and the changed timestamp.
Unrecoverable ==
    \/ inp.GRPC_CLIENT = <<>>
    \/ ~inp.resp.ok
    \/ inp.resp.timestamp = <<>>

TimestampDiffers ==
    /\ ~Unrecoverable
    /\ inp.resp.timestamp[1] # inp.LAST_UPDATE

\* C25 (cacher invalidation): the validity check empties the cache iff the
\* client is not set up, or the GetLastUpdate call fails, or it returns no
\* timestamp, or it returns a timestamp different from last_update_ts; a
\* different timestamp becomes last_update_ts; an equal one leaves the
\* cache and last_update_ts unchanged.
C25_Invalidation ==
    out.step = "checked" =>
        /\ out.clearing <=> (Unrecoverable \/ TimestampDiffers)
        /\ (Unrecoverable \/ TimestampDiffers)
              => out.CACHED_SCHEDULE = EmptyMap
        /\ TimestampDiffers => out.LAST_UPDATE = inp.resp.timestamp[1]
        /\ ~(Unrecoverable \/ TimestampDiffers) =>
              /\ out.CACHED_SCHEDULE = inp.CACHED_SCHEDULE
              /\ out.LAST_UPDATE = inp.LAST_UPDATE

\* A cache of two entries emptied because the origin reports a new
\* timestamp, which is stored.
C25_Witness ==
    /\ out.step = "checked"
    /\ DOMAIN inp.CACHED_SCHEDULE = RequestKeys
    /\ inp.GRPC_CLIENT # <<>>
    /\ inp.resp.ok
    /\ inp.resp.timestamp # <<>>
    /\ inp.LAST_UPDATE # 0
    /\ inp.resp.timestamp[1] # inp.LAST_UPDATE
    /\ out.CACHED_SCHEDULE = EmptyMap
    /\ out.LAST_UPDATE = inp.resp.timestamp[1]

\* C26 (unrecoverable paths reset the timestamp): when the GetLastUpdate
\* call fails, the client is not set up, or the returned timestamp is
\* absent, last_update_ts is zero after the check.
C26_UnrecoverableZero ==
    (out.step = "checked" /\ Unrecoverable) => out.LAST_UPDATE = 0

(***************************************************************************)
(* SpecCache: the cacher serving requests on concurrent connections        *)
(* (serve_schedule, one task per handler) in front of an origin that       *)
(* commits.  A request body is a number; a new body is always the next     *)
(* unused one.  `last` remembers how the latest request ended.  A run      *)
(* starts with the cacher fresh, or after it has answered requests with    *)
(* the bodies 1..fill one after the other under the origin's first         *)
(* timestamp, which leaves room for two more entries.                      *)
(***************************************************************************)
NumHandlers == 2        \* requests in flight at once
MaxKeys == 21           \* distinct request bodies
MaxRequests == 4        \* requests on the permitted path in one run
MaxFaults == 1          \* failed or timestamp-less origin calls
MaxOriginCommits == 1   \* commits of the origin after the first

Handlers == 1..NumHandlers

Paths == {GRPC_URL_PATH, "/db_transit.Schedule/GetLastUpdate"}

NoCacherResponse == [status |-> "none"]

\* form_response
FormResponse(bvec, headers, trailers) ==
    [status |-> "ok", bvec |-> bvec, headers |-> headers,
     trailers |-> trailers]

IdleHandler ==
    [pc |-> "idle", path |-> "", key |-> 0, resp |-> LastUpdateErr,
     clearing |-> FALSE, upstream |-> <<>>, source |-> "none",
     response |-> NoCacherResponse, stale |-> FALSE, invalidated |-> FALSE,
     alone |-> FALSE]

AddCachedValueOffByOne(cache, key, value) ==
    IF Cardinality(DOMAIN cache) > MAX_CACHE_ENTRIES
    THEN cache
    ELSE [k \in DOMAIN cache \cup {key} |->
             IF k = key THEN value ELSE cache[k]]

AddCachedValueEvict(cache, key, value) ==
    IF Cardinality(DOMAIN cache) >= MAX_CACHE_ENTRIES
    THEN LET old == CHOOSE k \in DOMAIN cache : TRUE
         IN  [k \in (DOMAIN cache \ {old}) \cup {key} |->
                 IF k = key THEN value ELSE cache[k]]
    ELSE [k \in DOMAIN cache \cup {key} |->
             IF k = key THEN value ELSE cache[k]]

\* add_cached_value: nothing when the cache is full, else insert.
AddCachedValue(cache, key, value) ==
    IF Cardinality(DOMAIN cache) >= MAX_CACHE_ENTRIES
    THEN cache
    ELSE [k \in DOMAIN cache \cup {key} |->
             IF k = key THEN value ELSE cache[k]]

InitialFills == {0, MAX_CACHE_ENTRIES - 2}

InitCache ==
    /\ now \in {t \in StartTimes : \A u \in StartTimes : t <= u}
    /\ history = <<[ts |-> now]>>
    /\ deltas = EmptyMap
    /\ full = <<>>
    /\ upd = [pc |-> "off"]
    /\ \E fill \in InitialFills :
          /\ inp = [used |-> fill, n |-> 0, faults |-> 0]
          /\ last = IF fill = 0
                    THEN [op |-> "none", key |-> 0, in_cache |-> FALSE,
                          reported |-> LastUpdateErr, alone |-> FALSE]
                    ELSE [op |-> "miss", key |-> fill, in_cache |-> TRUE,
                          reported |-> LastUpdateOk(<<now>>), alone |-> TRUE]
          /\ out = [GRPC_CLIENT |-> <<"client">>,
                    LAST_UPDATE |-> IF fill = 0 THEN 0 ELSE now,
                    CACHED_SCHEDULE |->
                       [k \in 1..fill |-> UpstreamResponse(k, now)],
                    lock |-> 0,
                    readers |-> {},
                    handlers |-> [h \in Handlers |-> IdleHandler]]

\* The origin commits a snapshot: its newest timestamp changes.
OriginCommit ==
    /\ Len(history) <= MaxOriginCommits
    /\ now' = now + 60 * INTERVAL_M
    /\ history' = Append(history, [ts |-> now'])
    /\ UNCHANGED <<deltas, full, upd, last, inp, out>>

\* A request enters handler h.  It is alone when no other request is in
\* flight, and stays so until another one arrives.
Accept(handlers, h, path, key) ==
    [g \in Handlers |->
        IF g = h
        THEN [IdleHandler EXCEPT
                 !.pc = "check", !.path = path, !.key = key,
                 !.alone = \A f \in Handlers \ {h} : handlers[f].pc = "idle"]
        ELSE IF handlers[g].pc # "idle"
             THEN [handlers[g] EXCEPT !.alone = FALSE]
             ELSE handlers[g]]

ArriveNoPathCheck(h) ==
    /\ out.handlers[h].pc = "idle"
    /\ inp.n < MaxRequests
    /\ \E path \in Paths, key \in {1, inp.used + 1} \cap 1..MaxKeys :
          /\ out' = [out EXCEPT !.handlers = Accept(@, h, path, key)]
          /\ inp' = [inp EXCEPT !.n = @ + 1,
                                !.used = IF key > @ THEN key ELSE @]
    /\ UNCHANGED <<history, deltas, full, now, upd, last>>

\* serve_schedule up to the path test: a request on another path is
\* answered with an error at once.
Arrive(h) ==
    /\ out.handlers[h].pc = "idle"
    /\ inp.n < MaxRequests
    /\ \E path \in Paths, key \in {1, inp.used + 1} \cap 1..MaxKeys :
          IF path # GRPC_URL_PATH
          THEN /\ out' = [out EXCEPT !.handlers[h] =
                             [IdleHandler EXCEPT
                                 !.path = path,
                                 !.response = [status |-> "error",
                                               reason |-> "Endpoint not supported"]]]
               /\ UNCHANGED inp
          ELSE /\ out' = [out EXCEPT !.handlers = Accept(@, h, path, key)]
               /\ inp' = [inp EXCEPT !.n = @ + 1,
                                     !.used = IF key > @ THEN key ELSE @]
    /\ UNCHANGED <<history, deltas, full, now, upd, last>>

\* check_cache_validity: GRPC_CLIENT.write() is granted and
\* client.get_last_update(req) returns.
CheckCall(h) ==
    /\ out.handlers[h].pc = "check"
    /\ out.lock = 0
    /\ \E resp \in {LastUpdateOk(LastTimestamp(history))}
                      \cup (IF inp.faults < MaxFaults
                            THEN {LastUpdateErr, LastUpdateOk(<<>>)}
                            ELSE {}) :
          /\ out' = [out EXCEPT !.lock = h,
                                !.handlers[h].pc = "called",
                                !.handlers[h].resp = resp]
          /\ inp' = [inp EXCEPT !.faults =
                        IF resp = LastUpdateOk(LastTimestamp(history))
                        THEN @ ELSE @ + 1]
    /\ UNCHANGED <<history, deltas, full, now, upd, last>>

\* check_cache_validity: the match on the response, with the write to
\* LAST_UPDATE; without clearing the check is over.
CheckStore(h) ==
    /\ out.handlers[h].pc = "called"
    /\ \E c \in {CheckCacheValidity(out.GRPC_CLIENT, out.handlers[h].resp,
                                    out.LAST_UPDATE, out.CACHED_SCHEDULE)} :
          out' = [out EXCEPT
                    !.LAST_UPDATE = c.LAST_UPDATE,
                    !.lock = IF c.clearing THEN h ELSE 0,
                    !.handlers[h].pc = IF c.clearing THEN "clearing"
                                       ELSE "checked",
                    !.handlers[h].clearing = c.clearing]
    /\ UNCHANGED <<history, deltas, full, now, upd, last, inp>>

\* check_cache_validity: CACHED_SCHEDULE.write().await.clear(), granted
\* when no handler holds a read guard.  A handler that holds a fetched
\* response notes the invalidation.
CheckClear(h) ==
    /\ out.handlers[h].pc = "clearing"
    /\ out.readers = {}
    /\ out' = [out EXCEPT
                 !.CACHED_SCHEDULE = EmptyMap,
                 !.lock = 0,
                 !.handlers =
                    [g \in Handlers |->
                        IF g = h THEN [@[g] EXCEPT !.pc = "checked"]
                        ELSE IF /\ @[g].pc = "fetched"
                                /\ out.handlers[h].resp.ok
                                /\ out.handlers[h].resp.timestamp # <<>>
                             THEN [@[g] EXCEPT !.invalidated = TRUE]
                             ELSE @[g]]]
    /\ UNCHANGED <<history, deltas, full, now, upd, last, inp>>

LookupAlwaysMiss(h) ==
    /\ out.handlers[h].pc = "checked"
    /\ out' = [out EXCEPT !.handlers[h].pc = "forward"]
    /\ UNCHANGED <<history, deltas, full, now, upd, last, inp>>

\* serve_schedule: the lookup of the body; a hit is answered from the
\* cache, a miss goes upstream.
Lookup(h) ==
    /\ out.handlers[h].pc = "checked"
    /\ LET hd == out.handlers[h]
           cache == out.CACHED_SCHEDULE
       IN  IF hd.key \in DOMAIN cache
           THEN /\ out' = [out EXCEPT !.handlers[h] =
                              [IdleHandler EXCEPT
                                 !.path = hd.path, !.key = hd.key,
                                 !.source = "cache",
                                 !.stale = cache[hd.key].bvec[2] < out.LAST_UPDATE,
                                 !.response = FormResponse(cache[hd.key].bvec,
                                                  cache[hd.key].headers,
                                                  cache[hd.key].trailers)]]
                /\ last' = [op |-> "hit", key |-> hd.key, in_cache |-> TRUE,
                            reported |-> hd.resp, alone |-> hd.alone]
           ELSE /\ out' = [out EXCEPT !.handlers[h].pc = "forward"]
                /\ UNCHANGED last
    /\ UNCHANGED <<history, deltas, full, now, upd, inp>>

\* serve_schedule: HTTP_CLIENT.request(upstream_req) and decode_body
Forward(h) ==
    /\ out.handlers[h].pc = "forward"
    /\ out' = [out EXCEPT
                 !.handlers[h].pc = "fetched",
                 !.handlers[h].upstream =
                    <<UpstreamResponse(out.handlers[h].key,
                                       LastTimestamp(history)[1])>>]
    /\ UNCHANGED <<history, deltas, full, now, upd, last, inp>>

\* serve_schedule: the upstream request fails, `?` returns the error
ForwardFail(h) ==
    /\ out.handlers[h].pc = "forward"
    /\ inp.faults < MaxFaults
    /\ inp' = [inp EXCEPT !.faults = @ + 1]
    /\ out' = [out EXCEPT !.handlers[h] =
                  [IdleHandler EXCEPT
                     !.path = out.handlers[h].path,
                     !.key = out.handlers[h].key,
                     !.response = [status |-> "error",
                                   reason |-> "upstream"]]]
    /\ last' = [op |-> "failed", key |-> out.handlers[h].key,
                in_cache |-> FALSE, reported |-> out.handlers[h].resp,
                alone |-> out.handlers[h].alone]
    /\ UNCHANGED <<history, deltas, full, now, upd>>

\* serve_schedule: add_cached_value, whose CACHED_SCHEDULE.write() is
\* granted when no handler holds a read guard, and the response built from
\* upstream
AddCached(h) ==
    /\ out.handlers[h].pc = "fetched"
    /\ out.readers = {}
    /\ LET hd == out.handlers[h]
           up == hd.upstream[1]
           cache == AddCachedValue(out.CACHED_SCHEDULE, hd.key, up)
       IN  /\ out' = [out EXCEPT
                        !.CACHED_SCHEDULE = cache,
                        !.handlers[h] =
                           [IdleHandler EXCEPT
                              !.path = hd.path, !.key = hd.key,
                              !.source = "origin",
                              !.invalidated = hd.invalidated,
                              !.response = FormResponse(up.bvec, up.headers,
                                                        up.trailers)]]
           /\ last' = [op |-> "miss", key |-> hd.key,
                       in_cache |-> hd.key \in DOMAIN cache,
                       reported |-> hd.resp, alone |-> hd.alone]
    /\ UNCHANGED <<history, deltas, full, now, upd, inp>>

NextCache ==
    \/ OriginCommit
    \/ \E h \in Handlers :
          \/ Arrive(h)
          \/ CheckCall(h)
          \/ CheckStore(h)
          \/ CheckClear(h)
          \/ Lookup(h)
          \/ Forward(h)
          \/ ForwardFail(h)
          \/ AddCached(h)

SpecCache == InitCache /\ [][NextCache]_vars

\* C24 (cacher path rejection): a request whose path is not
\* /db_transit.Schedule/GetSchedule is answered with an error and causes no
\* GetLastUpdate call, no forward to the origin, and no change to the cache
\* or to last_update_ts.
C24_PathRejection ==
    /\ [](\A h \in Handlers :
             out.handlers[h].pc # "idle"
                => out.handlers[h].path = GRPC_URL_PATH)
    /\ [][\A h \in Handlers :
             (/\ out'.handlers[h] # out.handlers[h]
              /\ out'.handlers[h].path # GRPC_URL_PATH) =>
                 /\ out.handlers[h].pc = "idle"
                 /\ out'.handlers[h].pc = "idle"
                 /\ out'.handlers[h].response.status = "error"
                 /\ out'.handlers[h].upstream = <<>>
                 /\ out'.lock = out.lock
                 /\ out'.CACHED_SCHEDULE = out.CACHED_SCHEDULE
                 /\ out'.LAST_UPDATE = out.LAST_UPDATE
                 /\ last' = last]_vars

\* A request on the GetLastUpdate path was rejected while the cache held
\* entries and another request was being served.
C24_Witness ==
    \E h \in Handlers :
       /\ out.handlers[h].path = "/db_transit.Schedule/GetLastUpdate"
       /\ out.handlers[h].response.status = "error"
       /\ out.CACHED_SCHEDULE # EmptyMap
       /\ \E g \in Handlers : out.handlers[g].pc = "fetched"

\* C27 (cache bound): in every reachable state, under any interleaving of
\* concurrent requests, the cache holds at most MAX_CACHE_ENTRIES entries.
C27_CacheBound ==
    Cardinality(DOMAIN out.CACHED_SCHEDULE) <= MAX_CACHE_ENTRIES

\* The cache is full while a handler is about to add what it fetched.
C27_Witness ==
    /\ Cardinality(DOMAIN out.CACHED_SCHEDULE) = MAX_CACHE_ENTRIES
    /\ \E h \in Handlers :
          /\ out.handlers[h].pc = "fetched"
          /\ out.handlers[h].key \notin DOMAIN out.CACHED_SCHEDULE

\* C28 (no eviction when full): a cache miss that completes while the
\* cache holds MAX_CACHE_ENTRIES entries leaves the cache exactly
\* unchanged and still returns the origin's response.
C28_NoEvictionWhenFull ==
    [][\A h \in Handlers :
          (/\ out.handlers[h].pc = "fetched"
           /\ out'.handlers[h].pc = "idle"
           /\ Cardinality(DOMAIN out.CACHED_SCHEDULE) = MAX_CACHE_ENTRIES) =>
              /\ out'.CACHED_SCHEDULE = out.CACHED_SCHEDULE
              /\ out'.handlers[h].response =
                    FormResponse(out.handlers[h].upstream[1].bvec,
                                 out.handlers[h].upstream[1].headers,
                                 out.handlers[h].upstream[1].trailers)]_vars

\* A miss for a new body completed on a full cache: the caller has the
\* origin's response and the body is not cached.
C28_Witness ==
    /\ Cardinality(DOMAIN out.CACHED_SCHEDULE) = MAX_CACHE_ENTRIES
    /\ \E h \in Handlers :
          /\ out.handlers[h].pc = "idle"
          /\ out.handlers[h].source = "origin"
          /\ out.handlers[h].key = last.key
          /\ last.op = "miss"
          /\ ~last.in_cache
          /\ out.handlers[h].key \notin DOMAIN out.CACHED_SCHEDULE
          /\ out.handlers[h].response.status = "ok"
          /\ out.handlers[h].response.bvec[1] = out.handlers[h].key

\* The request in handler h and the latest finished request were each
\* served with no other request in flight.
Sequential(h) == out.handlers[h].alone /\ last.alone

\* C29 (cache hit/miss sequence): for sequential requests on the permitted
\* path with identical body, while the origin reports the same last-update
\* timestamp and the cache had room, the first is forwarded and inserted
\* and a later one is answered from the cache with exactly the stored body,
\* headers and trailers, without a forward; after the origin reports a new
\* timestamp the next such request is forwarded again.
C29_HitMissSequence ==
    /\ [](\A h \in Handlers :
             LET hd == out.handlers[h]
             IN  (/\ hd.pc = "checked"
                  /\ Sequential(h)
                  /\ last.in_cache
                  /\ last.key = hd.key
                  /\ last.reported.ok /\ last.reported.timestamp # <<>>
                  /\ hd.resp.ok /\ hd.resp.timestamp # <<>>) =>
                     IF hd.resp = last.reported
                     THEN hd.key \in DOMAIN out.CACHED_SCHEDULE
                     ELSE hd.key \notin DOMAIN out.CACHED_SCHEDULE)
    /\ [][\A h \in Handlers :
             LET hd == out.handlers[h]
                 cache == out.CACHED_SCHEDULE
             IN  /\ (hd.pc = "checked" /\ out'.handlers[h].pc # "checked") =>
                       IF hd.key \in DOMAIN cache
                       THEN /\ out'.handlers[h].pc = "idle"
                            /\ out'.handlers[h].upstream = <<>>
                            /\ out'.handlers[h].response =
                                  FormResponse(cache[hd.key].bvec,
                                               cache[hd.key].headers,
                                               cache[hd.key].trailers)
                       ELSE out'.handlers[h].pc = "forward"
                 /\ (/\ hd.pc = "fetched"
                     /\ out'.handlers[h].pc = "idle"
                     /\ Cardinality(DOMAIN cache) < MAX_CACHE_ENTRIES) =>
                        /\ hd.key \in DOMAIN out'.CACHED_SCHEDULE
                        /\ out'.CACHED_SCHEDULE[hd.key] = hd.upstream[1]]_vars

\* The second of two sequential requests with the same body was answered
\* from the cache with what the first one stored.
C29_Witness ==
    /\ last.op = "hit"
    /\ last.reported.ok
    /\ inp.n = 2
    /\ Len(history) = 1
    /\ DOMAIN out.CACHED_SCHEDULE = {1}
    /\ last.alone
    /\ \E h \in Handlers :
          /\ out.handlers[h].pc = "idle"
          /\ out.handlers[h].source = "cache"
          /\ out.handlers[h].key = 1
          /\ out.handlers[h].response =
                FormResponse(out.CACHED_SCHEDULE[1].bvec,
                             out.CACHED_SCHEDULE[1].headers,
                             out.CACHED_SCHEDULE[1].trailers)

\* C30 (cache freshness under concurrency): a response fetched from the
\* origin before an invalidation is never in the cache after that
\* invalidation, and no request is answered from the cache with a response
\* the origin produced under a timestamp older than the cacher's current
\* last_update_ts.
C30_CacheFreshness ==
    \A h \in Handlers :
       LET hd == out.handlers[h]
       IN  /\ ~(hd.pc = "idle" /\ hd.source = "cache" /\ hd.stale)
           /\ ~(/\ hd.pc = "idle"
                /\ hd.source = "origin"
                /\ hd.invalidated
                /\ hd.key \in DOMAIN out.CACHED_SCHEDULE
                /\ out.CACHED_SCHEDULE[hd.key].bvec = hd.response.bvec)

(***************************************************************************)
(* SpecSupervise: the supervisor of bin/server.rs around the two loops.    *)
(* tokio::select! completes with the first loop that returns Err and drops *)
(* the other one where it stands; the supervisor then sleeps and starts    *)
(* both again.  The statics are process-wide and are not touched.          *)
(***************************************************************************)
MaxErrors == 2          \* loop errors of one run

\* update_loop returns Err: get_update fails at boot or in a turn of the
\* loop (the two `?` of update_loop).
UpdaterErr ==
    /\ upd.pc = "boot" \/ (upd.pc = "loop" /\ now >= upd.next_update)
    /\ upd.restarts < MaxErrors
    /\ upd' = [upd EXCEPT !.pc = "backoff"]
    /\ last' = [last EXCEPT !.op = "updater_err"]
    /\ UNCHANGED <<history, deltas, full, now, inp, out>>

\* server_loop returns Err; it is past its wait for the full schedule, and
\* update_loop is dropped at the await it stands at.
ServerErr ==
    /\ upd.pc \in {"boot", "loop", "sleep"}
    /\ full # <<>>
    /\ upd.restarts < MaxErrors
    /\ upd' = [upd EXCEPT !.pc = "backoff"]
    /\ last' = [last EXCEPT !.op = "server_err"]
    /\ UNCHANGED <<history, deltas, full, now, inp, out>>

BackoffExit ==
    /\ upd.pc = "backoff"
    /\ upd' = [upd EXCEPT !.pc = "crashed"]
    /\ UNCHANGED <<history, deltas, full, now, last, inp, out>>

\* error!(..); sleep(Duration::from_secs(1)).await; and the next turn of the
\* supervisor's loop.
Backoff ==
    /\ upd.pc = "backoff"
    /\ now' = now + BackoffSecs
    /\ upd' = [upd EXCEPT !.pc = "boot", !.restarts = @ + 1]
    /\ UNCHANGED <<history, deltas, full, last, inp, out>>

\* The process starts as in Init; the upstream has already published all
\* but its last bundle.
InitSupervise ==
    /\ history = <<>>
    /\ deltas = EmptyMap
    /\ full = <<>>
    /\ now \in StartTimes
    /\ upd = [pc |-> "boot", next_update |-> 0, restarts |-> 0]
    /\ last = [op |-> "none", n |-> 0, panic |-> None, evicted |-> <<>>,
               mismatch |-> FALSE]
    /\ inp = [feed |-> Len(Feed) - 1]
    /\ out = NoResult

NextSupervise ==
    \/ Boot
    \/ Tick
    \/ Skip
    \/ Sleep
    \/ UpdaterErr
    \/ ServerErr
    \/ Backoff

\* The supervisor's sleep is a timer: it fires.
SpecSupervise ==
    InitSupervise /\ [][NextSupervise]_vars /\ WF_vars(Backoff)

\* What the step after a loop error does: the loops start again one second
\* later, with the statics as the error left them.
RestartStep ==
    upd.pc = "backoff" =>
        /\ upd'.pc = "boot"
        /\ now' = now + 1
        /\ history' = history
        /\ deltas' = deltas
        /\ full' = full

\* What the boot commit of a restarted updater does to the history it
\* finds: it keeps the entries (all but the oldest of 10) and appends one.
BootAppends ==
    (upd.pc = "boot" /\ upd.restarts > 0 /\ last'.n # last.n
        /\ last'.panic = None) =>
        LET kept == IF Len(history) = 10 THEN Tail(history) ELSE history
        IN  /\ Len(history') = Len(kept) + 1
            /\ Snapshots(SubSeq(history', 1, Len(kept))) = Snapshots(kept)
            /\ history'[Len(history')].ts = now

\* C31 (supervisor restart): whenever server_loop or update_loop returns an
\* error the supervisor waits 1 second and starts both loops again, every
\* time (a loop error never ends the supervisor); the statics keep their
\* contents across the restart, and the boot commit of the restarted updater
\* appends to the history it finds.
C31_SupervisorRestart ==
    /\ [][RestartStep]_vars
    /\ [][BootAppends]_vars
    /\ [](upd.pc = "backoff" => ENABLED Backoff)
    /\ (upd.pc = "backoff") ~> (upd.pc = "boot")

\* The boot commit after the second restart, on a history that holds
\* entries of the first and of the second instance.
C31_Witness ==
    /\ upd.restarts = 2
    /\ upd.pc = "loop"
    /\ last.op = "commit"
    /\ last.panic = None
    /\ Len(history) >= 3
    /\ history[Len(history)].ts = now
    /\ history[Len(history) - 1].ts < now

(***************************************************************************)
(* Lock waits in SpecServe.  The handler holds DIFFS_LOCK.read() from its  *)
(* first statement to its return (diff_map, server.rs:61) and asks for     *)
(* HISTORY_LOCK.read() with it; update_global_state holds                  *)
(* HISTORY_LOCK.write() (server.rs:156) and asks for DIFFS_LOCK.write()    *)
(* with it (server.rs:157).                                                *)
(***************************************************************************)
\* The request awaits HISTORY_LOCK.read() while the commit holds the write
\* guard.
RequestWaitsForCommit ==
    out.pc = "have_diffs" /\ upd.pc = "locked_history"

\* The commit awaits DIFFS_LOCK.write() while the request holds a read guard.
CommitWaitsForRequest ==
    upd.pc = "locked_history" /\ out.pc \in {"have_diffs", "have_rec"}

\* C32 (deadlock freedom on the origin): no interleaving of a request with
\* a commit reaches a state in which the request waits for a lock the commit
\* holds while the commit waits for a lock the request holds.
C32_DeadlockFree ==
    ~(RequestWaitsForCommit /\ CommitWaitsForRequest)

(***************************************************************************)
(* SpecNextUpdate: get_next_update on the datetimes of one day, every hour *)
(* with the minutes around the last interval and a few seconds.            *)
(***************************************************************************)
SampleDateTimes ==
    {h * 3600 + m * 60 + s : h \in 0..23, m \in {0, 29, 58, 59},
                             s \in {0, 1, 59}}

InitNextUpdate ==
    /\ OriginAtRest
    /\ inp \in [dt : SampleDateTimes]
    /\ out = [step |-> "start", next_update |-> 0]

\* let mut next_update = get_next_update(get_nyc_datetime());
NextUpdateStep ==
    /\ out.step = "start"
    /\ out' = [step |-> "computed", next_update |-> GetNextUpdate(inp.dt)]
    /\ UNCHANGED <<inp, originVars>>

NextNextUpdate == NextUpdateStep

SpecNextUpdate == InitNextUpdate /\ [][NextNextUpdate]_vars

\* C33 (next-tick alignment): get_next_update(dt) is strictly later than dt
\* and at most INTERVAL_M minutes later, has second 0 and a minute that is a
\* multiple of INTERVAL_M; when dt lies in the last interval of the hour it
\* is hh+1:00:00, and when the hour is 23 too it is 00:00:00 of the next
\* day.
C33_NextTickAlignment ==
    out.step = "computed" =>
        LET dt == inp.dt
            r == out.next_update
            hour == (dt \div 3600) % 24
            minute == (dt \div 60) % 60
        IN  /\ r > dt
            /\ r - dt <= INTERVAL_M * 60
            /\ r % 60 = 0
            /\ ((r \div 60) % 60) % INTERVAL_M = 0
            /\ minute \div INTERVAL_M = (60 \div INTERVAL_M) - 1 =>
                  r = (dt \div 86400) * 86400 + (hour + 1) * 3600

\* C34 (identity history): after every commit the delta stored under the
\* newest timestamp is the empty update, and when the committed IR equals the
\* previously newest IR the delta stored under the previous newest timestamp
\* is empty too; a client presenting the newest timestamp receives an empty
\* delta and no full schedule.
C34_IdentityHistory ==
    (last.op = "commit" /\ last.panic = None) =>
        LET n == Len(history)
            newest == history[n]
            r == GetSchedule(newest.ts, deltas, LastTimestamp(history), full)
        IN  /\ newest.update = EmptyUpdate
            /\ newest.ts \in DOMAIN deltas
            /\ deltas[newest.ts] = ToScheduleDiff(EmptyUpdate)
            /\ (n >= 2 /\ history[n - 1].ir = newest.ir) =>
                  /\ history[n - 1].update = EmptyUpdate
                  /\ deltas[history[n - 1].ts] = ToScheduleDiff(EmptyUpdate)
            /\ r.status = "ok"
            /\ r.full_schedule = <<>>
            /\ r.schedule_diff = <<ToScheduleDiff(EmptyUpdate)>>
            /\ r.timestamp = <<newest.ts>>

\* The same bundle committed twice in a row, after a different one: the two
\* newest deltas are empty and the oldest is not.
C34_Witness ==
    /\ last.op = "commit"
    /\ last.panic = None
    /\ Len(history) >= 3
    /\ history[Len(history)].ir = history[Len(history) - 1].ir
    /\ history[1].ir # history[Len(history)].ir
    /\ deltas[history[Len(history) - 1].ts] = ToScheduleDiff(EmptyUpdate)
    /\ deltas[history[1].ts] # ToScheduleDiff(EmptyUpdate)

(***************************************************************************)
(* SpecCacheLock: SpecCache with the read guard of CACHED_SCHEDULE in the  *)
(* state.  out.readers holds the handlers with a read guard; a write guard *)
(* (CheckClear, AddCached) is granted when there is none.  The guard of    *)
(* serve_schedule's lookup is a temporary of the `if let` scrutinee: the   *)
(* hit branch keeps it across info(..).await up to the response, the else  *)
(* branch runs after the temporary is dropped.  A run starts after the     *)
(* cacher has served 18 bodies.                                            *)
(***************************************************************************)
InitCacheLock ==
    /\ InitCache
    /\ inp.used = MAX_CACHE_ENTRIES - 2
    /\ inp.n = 0

LookupReadKeepGuard(h) ==
    /\ out.handlers[h].pc = "checked"
    /\ out' = [out EXCEPT
                 !.readers = @ \cup {h},
                 !.handlers[h].pc =
                    IF out.handlers[h].key \in DOMAIN out.CACHED_SCHEDULE
                    THEN "hit" ELSE "forward"]
    /\ UNCHANGED <<history, deltas, full, now, upd, last, inp>>

\* serve_schedule: CACHED_SCHEDULE.read().await.get(&req_body); the guard
\* stays with a hit and is gone in the else branch.
LookupRead(h) ==
    /\ out.handlers[h].pc = "checked"
    /\ out' = IF out.handlers[h].key \in DOMAIN out.CACHED_SCHEDULE
              THEN [out EXCEPT !.readers = @ \cup {h},
                               !.handlers[h].pc = "hit"]
              ELSE [out EXCEPT !.handlers[h].pc = "forward"]
    /\ UNCHANGED <<history, deltas, full, now, upd, last, inp>>

\* serve_schedule: the hit branch, info(..).await and form_response; the
\* guard drops with the response.
HitRespond(h) ==
    /\ out.handlers[h].pc = "hit"
    /\ LET hd == out.handlers[h]
           cache == out.CACHED_SCHEDULE
       IN  /\ out' = [out EXCEPT
                        !.readers = @ \ {h},
                        !.handlers[h] =
                           [IdleHandler EXCEPT
                              !.path = hd.path, !.key = hd.key,
                              !.source = "cache",
                              !.stale = cache[hd.key].bvec[2] < out.LAST_UPDATE,
                              !.response = FormResponse(cache[hd.key].bvec,
                                               cache[hd.key].headers,
                                               cache[hd.key].trailers)]]
           /\ last' = [op |-> "hit", key |-> hd.key, in_cache |-> TRUE,
                       reported |-> hd.resp, alone |-> hd.alone]
    /\ UNCHANGED <<history, deltas, full, now, upd, inp>>

\* serve_schedule past the path test, one await at a time
Serve(h) ==
    \/ CheckCall(h)
    \/ CheckStore(h)
    \/ CheckClear(h)
    \/ LookupRead(h)
    \/ HitRespond(h)
    \/ Forward(h)
    \/ ForwardFail(h)
    \/ AddCached(h)

NextCacheLock ==
    \/ OriginCommit
    \/ \E h \in Handlers : Arrive(h) \/ Serve(h)

\* The runtime polls every task that can run.
SpecCacheLock ==
    InitCacheLock /\ [][NextCacheLock]_vars
        /\ \A h \in Handlers : WF_vars(Serve(h))

\* C35 (the miss path does not block itself): on a miss the handler holds
\* no read guard of the cache when it forwards the request and when
\* add_cached_value asks for the write guard, so every miss ends with a
\* response; a lookup is granted its read guard while other lookups hold
\* theirs.
C35_MissPathNoSelfBlock ==
    /\ [](\A h \in Handlers :
            out.handlers[h].pc \in {"forward", "fetched"} =>
                h \notin out.readers)
    /\ [](\A h \in Handlers :
            (out.handlers[h].pc = "checked" /\ out.readers # {}) =>
                ENABLED LookupRead(h))
    /\ \A h \in Handlers :
          (out.handlers[h].pc = "forward") ~> (out.handlers[h].pc = "idle")

\* Two lookups hold read guards at once, and a miss has been answered from
\* the origin.
C35_Witness ==
    /\ out.readers = Handlers
    /\ \A h \in Handlers : out.handlers[h].pc = "hit"
    /\ last.op = "miss"
    /\ inp.n >= 3

(***************************************************************************)
(* SpecCommits: update_global_state on every sequence of snapshots with    *)
(* the same routes, one commit per tick, from the empty statics.  The      *)
(* loop's consistency check is part of the commit: last.mismatch tells     *)
(* that error!("Mismatched diff combining values, check code") was logged. *)
(***************************************************************************)
MaxSeqCommits == 3      \* commits of one sequence

\* The snapshots committed: both routes, with or without trips.
CommitIRs == {ir \in ComposeIRs : DOMAIN ir.routes = RouteIds}

InitCommits ==
    /\ history = <<>>
    /\ deltas = EmptyMap
    /\ full = <<>>
    /\ now \in {t \in StartTimes : \A u \in StartTimes : t <= u}
    /\ upd = [pc |-> "boot", next_update |-> 0, restarts |-> 0]
    /\ last = [op |-> "none", n |-> 0, panic |-> None, evicted |-> <<>>,
               mismatch |-> FALSE]
    /\ inp = [schedule |-> <<>>]
    /\ out = NoResult

\* update_global_state(curr_schedule.clone()) of update_loop, at boot and
\* one tick after the commit before.
CommitSchedule ==
    /\ upd.pc # "crashed"
    /\ last.n < MaxSeqCommits
    /\ \E schedule \in CommitIRs :
       \E c \in {UpdateGlobalState(schedule, now, history, deltas, full)} :
          /\ history' = c.history
          /\ deltas' = c.deltas
          /\ full' = c.full
          /\ last' = [op |-> "commit", n |-> last.n + 1, panic |-> c.panic,
                      evicted |-> c.evicted, mismatch |-> c.mismatch]
          /\ upd' = IF c.panic # None
                    THEN [upd EXCEPT !.pc = "crashed"]
                    ELSE [upd EXCEPT !.pc = "loop",
                                     !.next_update = GetNextUpdate(now)]
          /\ inp' = [schedule |-> <<schedule>>]
    /\ now' = now + 60 * INTERVAL_M
    /\ out' = out

NextCommits == CommitSchedule

SpecCommits == InitCommits /\ [][NextCommits]_vars

\* The routes of the committed IR are those of every retained snapshot.
RoutesUnchanged ==
    \A i \in 1..Len(history) :
        DOMAIN history[i].ir.routes = DOMAIN history[Len(history)].ir.routes

\* C36 (the commit's consistency check never fires): in every commit of an
\* IR whose route set equals that of the retained snapshots, for every
\* history entry the alternative update combine(u_i, prev_diff) applies to
\* S_i to give exactly the committed IR, so the mismatch error is never
\* logged and combine never reaches its logic-error branch, for any
\* sequence of commits.
C36_CheckNeverFires ==
    (last.op = "commit" /\ RoutesUnchanged) =>
        /\ ~last.mismatch
        /\ last.panic = None

\* A change committed and then taken back: the oldest entry's update was
\* not empty when the third commit combined it with a diff that undoes it.
C36_Witness ==
    /\ last.op = "commit"
    /\ last.n = 3
    /\ Len(history) = 3
    /\ history[1].ir = history[3].ir
    /\ history[2].ir # history[3].ir
    /\ <<"A", "t1">> \in DOMAIN history[2].update.added_trips
    /\ history[2].update.removed_stop_ids # {}
    /\ history[1].update = EmptyUpdate
    /\ ~last.mismatch

\* C37 (applying a diff to its own target is a no-op): for snapshots curr
\* and prev with the same set of route ids, curr.get_diff(prev) applied to
\* curr gives an IR equal to curr.
C37_ApplyToTarget ==
    (out.step = "reapplied" /\ SameRoutes(inp.curr, inp.prev)) =>
        /\ ~out.applied.panic
        /\ out.applied.ir = inp.curr

\* A diff with a changed trip, a deleted trip key and a deleted stop,
\* applied to the snapshot it was taken for.
C37_Witness ==
    /\ out.step = "reapplied"
    /\ SameRoutes(inp.curr, inp.prev)
    /\ DOMAIN inp.curr.routes = RouteIds
    /\ inp.curr # inp.prev
    /\ \E k \in out.diff.update.removed_trip_ids :
          k \in DOMAIN out.diff.update.added_trips
    /\ \E k \in out.diff.update.removed_trip_ids :
          k \notin DOMAIN out.diff.update.added_trips
    /\ \E k \in out.diff.update.removed_stop_ids : k \notin DOMAIN inp.curr.stops
    /\ out.applied.ir = inp.curr

\* C38 (the empty update is a two-sided identity for combine): for every
\* update u, combine(empty, u) and combine(u, empty) do not raise and equal
\* u: the same added maps with the same values and the same removed sets.
C38_EmptyIsIdentity ==
    out.step # "start" =>
        /\ inp.u1 = EmptyUpdate =>
              ~out.comb.panic /\ out.comb.update = inp.u2
        /\ inp.u2 = EmptyUpdate =>
              ~out.comb.panic /\ out.comb.update = inp.u1

\* combine(u, empty) for an update that changes a trip.
C38_Witness ==
    /\ out.step = "combined"
    /\ inp.u2 = EmptyUpdate
    /\ \E k \in inp.u1.removed_trip_ids : k \in DOMAIN inp.u1.added_trips
    /\ out.comb.update = inp.u1
    /\ out.comb.update # EmptyUpdate

\* What a commit does to the entries it retains (all but the oldest of 10):
\* each keeps its place, its timestamp and its IR, and a commit that
\* completes puts the new entry, with the committed IR, after them.
CommitFrame ==
    last'.n # last.n =>
        LET kept == IF Len(history) = 10 THEN Tail(history) ELSE history
        IN  /\ Len(history') >= Len(kept)
            /\ \A i \in 1..Len(kept) :
                  /\ history'[i].ts = kept[i].ts
                  /\ history'[i].ir = kept[i].ir
            /\ last'.panic = None =>
                  /\ Len(history') = Len(kept) + 1
                  /\ history'[Len(history')].ts = now
                  /\ history'[Len(history')].ir = Feed[inp'.feed]

\* C39 (commit frame): a commit changes, for the history entries it
\* retains, only their stored outgoing update; the timestamp and the IR of
\* every retained entry are identical before and after the commit, and the
\* relative order of retained entries is unchanged, with the new entry last.
C39_CommitFrame ==
    [][CommitFrame]_vars

\* A commit that evicted, after which retained entries of two different
\* snapshots hold different updates towards the new one.
C39_Witness ==
    /\ last.op = "commit"
    /\ last.panic = None
    /\ last.evicted # <<>>
    /\ Len(history) = 10
    /\ history[1].ir # history[10].ir
    /\ history[1].update # EmptyUpdate
    /\ history[9].ir # history[1].ir
    /\ history[9].update # history[1].update

====
